---- MODULE Spec2Model ----
(***************************************************************************)
(* A model of gww's expression evaluator: the URI value object, the        *)
(* template function registry, the template/predicate evaluator and the    *)
(* path resolver.                                                          *)
(*                                                                         *)
(* Python strings are sequences of one-character strings, because the      *)
(* evaluator's own algorithm (escape replacement, the function-call        *)
(* regular expression, placeholder substitution) works on characters.      *)
(* The two escape sentinels and the placeholders are single tokens of      *)
(* such a sequence: they are built from the control characters U+0000 and  *)
(* U+0001, which the alphabet of the modelled inputs does not contain.     *)
(*                                                                         *)
(* Python values are records tagged by a type t; a raised exception is    *)
(* the value [t |-> "raise", exc |-> <exception class>].  Each type of     *)
(* value has a field of its own for its content.                           *)
(***************************************************************************)
EXTENDS Integers, Sequences, FiniteSets, TLC

VARIABLES
    config,     \* the validated Config: default templates and ordered source rules
    uri,        \* the ParsedURI handed to the resolver
    ctx,        \* the TemplateContext of a template evaluation / registry
    parts,      \* the pieces the template was written from, in order
    template,   \* the template string (sequence of characters) under evaluation
    pc,         \* "ready" before the operation, "done" after it
    result      \* what the operation returned or raised

vars == <<config, uri, ctx, parts, template, pc, result>>

----------------------------------------------------------------------------
(* Bounds of the model *)

MaxRules == 2
MaxParts == 2
MaxIndex == 4
MaxSegments == 2

----------------------------------------------------------------------------
(* Python values *)

NoneV == [t |-> "none"]
StrV(s) == [t |-> "str", s |-> s]
IntV(i) == [t |-> "int", n |-> i]
BoolV(b) == [t |-> "bool", b |-> b]
ListV(l) == [t |-> "list", l |-> l]
FuncV(n) == [t |-> "function", f |-> n]
Raise(exc) == [t |-> "raise", exc |-> exc]

IsRaise(x) == x.t = "raise"
IsNone(x) == x.t = "none"

\* The exception classes of evaluator.py: ContextError and FunctionTypeError
\* derive from TemplateError.
IsTemplateError(x) ==
    IsRaise(x) /\ x.exc \in {"TemplateError", "ContextError", "FunctionTypeError"}

\* Python's truth value of an object (bool(x)).
Truthy(x) ==
    CASE x.t = "bool" -> x.b
      [] x.t = "int" -> x.n # 0
      [] x.t = "str" -> Len(x.s) > 0
      [] x.t = "list" -> Len(x.l) > 0
      [] x.t = "none" -> FALSE
      [] OTHER -> TRUE

\* Python's ==: bool is a subclass of int (True == 1); values of unrelated
\* types compare unequal without raising.
IsNum(x) == x.t \in {"int", "bool"}
NumOf(x) == IF x.t = "bool" THEN (IF x.b THEN 1 ELSE 0) ELSE x.n
PyEq(a, b) ==
    IF IsNum(a) /\ IsNum(b) THEN NumOf(a) = NumOf(b)
    ELSE IF a.t # b.t THEN FALSE
    ELSE IF a.t = "none" THEN TRUE
    ELSE IF a.t = "str" THEN a.s = b.s
    ELSE IF a.t = "list" THEN a.l = b.l     \* lists of strings
    ELSE a = b

----------------------------------------------------------------------------
(* Strings *)

\* The characters of a string literal, as a sequence
Chars(str) == [i \in 1..Len(str) |-> SubSeq(str, i, i)]

S_empty == <<>>
S_host == Chars("host")
S_port == Chars("port")
S_protocol == Chars("protocol")
S_uri == Chars("uri")
S_path == Chars("path")
S_branch == Chars("branch")
S_norm_branch == Chars("norm_branch")
S_tag == Chars("tag")
S_tag_exist == Chars("tag_exist")

S_True == Chars("True")
S_False == Chars("False")
S_None == Chars("None")

Letters ==
    {"a", "b", "c", "d", "e", "f", "g", "h", "i", "j", "k", "l", "m", "n", "o",
     "p", "q", "r", "s", "t", "u", "v", "w", "x", "y", "z",
     "A", "B", "C", "D", "E", "F", "G", "H", "I", "J", "K", "L", "M", "N", "O",
     "P", "Q", "R", "S", "T", "U", "V", "W", "X", "Y", "Z"}
Digits == {"0", "1", "2", "3", "4", "5", "6", "7", "8", "9"}

RECURSIVE Concat(_)
\* "".join(strs)
Concat(strs) ==
    IF strs = <<>> THEN <<>> ELSE Head(strs) \o Concat(Tail(strs))

\* s[i:] in Python terms, for a 1-based position i
From(s, i) == SubSeq(s, i, Len(s))

\* s.startswith(p)
StartsWith(s, p) == Len(s) >= Len(p) /\ SubSeq(s, 1, Len(p)) = p

\* p in s, for strings
Contains(s, p) ==
    \E i \in 1..(Len(s) - Len(p) + 1) : SubSeq(s, i, i + Len(p) - 1) = p

\* A Python dict written from a sequence of <<key, value>> pairs with
\* distinct keys: the function from its keys to their values
Dict(pairs) ==
    [n \in {pairs[i][1] : i \in 1..Len(pairs)} |->
        LET i == CHOOSE j \in 1..Len(pairs) : pairs[j][1] = n IN pairs[i][2]]

\* s.find(p): the first position p occurs at, 0 when there is none
Find(s, p) ==
    LET at == {i \in 1..(Len(s) - Len(p) + 1) : SubSeq(s, i, i + Len(p) - 1) = p}
    IN  IF at = {} THEN 0 ELSE CHOOSE i \in at : \A j \in at : i <= j

RECURSIVE Replace(_, _, _)
\* str.replace(old, new): leftmost, non-overlapping occurrences of the
\* non-empty string old, scanning left to right.
Replace(s, old, new) ==
    LET i == Find(s, old)
    IN  IF i = 0 THEN s
        ELSE SubSeq(s, 1, i - 1) \o new \o Replace(From(s, i + Len(old)), old, new)

----------------------------------------------------------------------------
(* utils/uri.py: the ParsedURI value object *)

ParsedURI(u, protocol, host, port, path_segments) ==
    [t |-> "ParsedURI", uri |-> u, protocol |-> protocol, host |-> host,
     port |-> port, path_segments |-> path_segments]

\* Mutation of ListGetItem: an index counted from the front only
ListGetItem_unsigned(l, index) ==
    IF ~IsNum(index) THEN Raise("TypeError")
    ELSE IF 0 <= NumOf(index) /\ NumOf(index) < Len(l) THEN l[NumOf(index) + 1]
    ELSE Raise("IndexError")

\* list.__getitem__ on a list of values, with Python's signed indexing: the
\* element, or IndexError when the index is out of range, or TypeError when
\* it is not an integer.
ListGetItem(l, index) ==
    IF ~IsNum(index) THEN Raise("TypeError")
    ELSE LET i == NumOf(index)
             n == Len(l)
         IN  IF 0 <= i /\ i < n THEN l[i + 1]
             ELSE IF i < 0 /\ -n <= i THEN l[n + i + 1]
             ELSE Raise("IndexError")

\* ParsedURI.path(index): return self.path_segments[index]
ParsedURI_path(u, index) ==
    ListGetItem([i \in 1..Len(u.path_segments) |-> StrV(u.path_segments[i])], index)

----------------------------------------------------------------------------
(* template/functions.py: TemplateContext and FunctionRegistry *)

\* tags: a dict from tag names to tag values (both strings); the dataclass
\* default is the empty dict.  uri is a ParsedURI or None, branch a str or
\* None.
NoTags == Dict(<<>>)

TemplateContext(u, branch, tags) ==
    [uri |-> u, branch |-> branch, tags |-> tags]

\* FunctionRegistry._register_builtin_functions: the registered names
RegisteredFunctions ==
    {S_host, S_port, S_protocol, S_uri, S_path, S_branch, S_norm_branch,
     S_tag, S_tag_exist}

_host(c) ==
    IF IsNone(c.uri) THEN Raise("ValueError") ELSE StrV(c.uri.host)

_port(c) ==
    IF IsNone(c.uri) THEN Raise("ValueError") ELSE StrV(c.uri.port)

_protocol(c) ==
    IF IsNone(c.uri) THEN Raise("ValueError") ELSE StrV(c.uri.protocol)

_uri(c) ==
    IF IsNone(c.uri) THEN Raise("ValueError") ELSE StrV(c.uri.uri)

_path(c, index) ==
    IF IsNone(c.uri) THEN Raise("ValueError")
    ELSE LET r == ParsedURI_path(c.uri, index)
         IN  IF IsRaise(r) /\ r.exc = "IndexError" THEN Raise("ValueError") ELSE r

\* Mutation of _branch: an absent branch read as the empty string
_branch_lenient(c) ==
    IF IsNone(c.branch) THEN StrV(S_empty) ELSE c.branch

_branch(c) ==
    IF IsNone(c.branch) THEN Raise("ValueError") ELSE c.branch

\* self._context.branch.replace("/", replacement); str.replace raises
\* TypeError for a replacement that is not a string.
_norm_branch(c, replacement) ==
    IF IsNone(c.branch) THEN Raise("ValueError")
    ELSE IF replacement.t # "str" THEN Raise("TypeError")
    ELSE StrV(Replace(c.branch.s, <<"/">>, replacement.s))

\* Mutation of _tag: self._context.tags[name], which raises for an absent key
_tag_subscript(c, name) ==
    IF name.t = "str" /\ name.s \in DOMAIN c.tags
    THEN StrV(c.tags[name.s])
    ELSE Raise("KeyError")

\* self._context.tags.get(name, ""); a key that is not a string is hashable
\* in the modelled value set and is never a key of tags.
_tag(c, name) ==
    IF name.t = "str" /\ name.s \in DOMAIN c.tags
    THEN StrV(c.tags[name.s])
    ELSE StrV(S_empty)

\* name in self._context.tags
_tag_exist(c, name) ==
    BoolV(name.t = "str" /\ name.s \in DOMAIN c.tags)

\* The working directory of the process
Cwd == Chars("/cwd")

RECURSIVE SplitPath(_)
\* path.split("/")
SplitPath(path) ==
    LET i == Find(path, <<"/">>)
    IN  IF i = 0 THEN <<path>>
        ELSE <<SubSeq(path, 1, i - 1)>> \o SplitPath(From(path, i + 1))

RECURSIVE Normalize(_, _)
\* The components of a resolved path: "" and "." dropped, ".." taking the
\* last component back (the root is its own parent)
Normalize(components, done) ==
    IF components = <<>> THEN done
    ELSE LET h == Head(components)
         IN  IF h = <<>> \/ h = <<".">> THEN Normalize(Tail(components), done)
             ELSE IF h = <<".", ".">>
             THEN Normalize(Tail(components),
                            IF done = <<>> THEN done ELSE SubSeq(done, 1, Len(done) - 1))
             ELSE Normalize(Tail(components), Append(done, h))

\* Path(path_str).resolve() on a file system without symbolic links: the
\* path made absolute against the working directory and normalised
PathResolve(path) ==
    LET abs == IF StartsWith(path, <<"/">>) THEN path ELSE Cwd \o <<"/">> \o path
        comps == Normalize(SplitPath(abs), <<>>)
    IN  IF comps = <<>> THEN <<"/">>
        ELSE Concat([i \in 1..Len(comps) |-> <<"/">> \o comps[i]])

\* create_project_functions(source_path, dest_path): the closures over the
\* two paths.  The context c of a project predicate carries, besides the
\* fields of TemplateContext, source_path and dest_path (a Path, dest_path
\* possibly None) and what the closures read from the environment: the
\* relative names that are files and directories under source_path, and
\* the root of the git repository the working directory lies in ("" when
\* it lies in none).
S_source_path == Chars("source_path")
S_dest_path == Chars("dest_path")
S_file_exists == Chars("file_exists")
S_dir_exists == Chars("dir_exists")
S_path_exists == Chars("path_exists")

ProjectFunctions ==
    {S_source_path, S_dest_path, S_file_exists, S_dir_exists, S_path_exists}

_source_path(c) == StrV(c.cwd_root)

_dest_path(c) ==
    IF ~IsNone(c.dest_path) THEN StrV(PathResolve(c.dest_path.p))
    ELSE StrV(PathResolve(c.source_path.p))

\* source_path / path raises TypeError for a path that is not a string
_file_exists(c, path) ==
    IF path.t # "str" THEN Raise("TypeError") ELSE BoolV(path.s \in c.files)

_dir_exists(c, path) ==
    IF path.t # "str" THEN Raise("TypeError") ELSE BoolV(path.s \in c.dirs)

_path_exists(c, path) ==
    IF path.t # "str" THEN Raise("TypeError")
    ELSE BoolV(path.s \in c.files \cup c.dirs)

CallProjectFunction(c, fname, args) ==
    LET n == Len(args)
    IN  CASE fname = S_source_path -> IF n = 0 THEN _source_path(c) ELSE Raise("TypeError")
          [] fname = S_dest_path -> IF n = 0 THEN _dest_path(c) ELSE Raise("TypeError")
          [] fname = S_file_exists ->
                IF n = 1 THEN _file_exists(c, args[1]) ELSE Raise("TypeError")
          [] fname = S_dir_exists ->
                IF n = 1 THEN _dir_exists(c, args[1]) ELSE Raise("TypeError")
          [] fname = S_path_exists ->
                IF n = 1 THEN _path_exists(c, args[1]) ELSE Raise("TypeError")
          [] OTHER -> Raise("KeyError")

\* Calling the bound method registered under fname with the positional
\* arguments args: Python raises TypeError when the number of arguments does
\* not fit the signature, before the body runs.
CallFunction(c, fname, args) ==
    LET n == Len(args)
    IN  CASE fname = S_host -> IF n = 0 THEN _host(c) ELSE Raise("TypeError")
          [] fname = S_port -> IF n = 0 THEN _port(c) ELSE Raise("TypeError")
          [] fname = S_protocol -> IF n = 0 THEN _protocol(c) ELSE Raise("TypeError")
          [] fname = S_uri -> IF n = 0 THEN _uri(c) ELSE Raise("TypeError")
          [] fname = S_path -> IF n = 1 THEN _path(c, args[1]) ELSE Raise("TypeError")
          [] fname = S_branch -> IF n = 0 THEN _branch(c) ELSE Raise("TypeError")
          [] fname = S_norm_branch ->
                IF n = 0 THEN _norm_branch(c, StrV(<<"-">>))
                ELSE IF n = 1 THEN _norm_branch(c, args[1])
                ELSE Raise("TypeError")
          [] fname = S_tag -> IF n = 1 THEN _tag(c, args[1]) ELSE Raise("TypeError")
          [] fname = S_tag_exist ->
                IF n = 1 THEN _tag_exist(c, args[1]) ELSE Raise("TypeError")
          [] OTHER -> CallProjectFunction(c, fname, args)

----------------------------------------------------------------------------
(* The restricted expression interpreter (simpleeval.EvalWithCompoundTypes, *)
(* subclassed as StrictSimpleEval in template/evaluator.py).               *)
(* Expressions are the syntax trees Python's parser gives.                 *)

Const(v) == [k |-> "const", val |-> v]
Name(id) == [k |-> "name", id |-> id]
Call(fn, args) == [k |-> "call", fn |-> fn, args |-> args]
Compare(op, l, r) == [k |-> "compare", op |-> op, l |-> l, r |-> r]
BoolOp(op, l, r) == [k |-> "boolop", op |-> op, l |-> l, r |-> r]
Not(e) == [k |-> "not", e |-> e]
Subscript(e, idx) == [k |-> "subscript", e |-> e, idx |-> idx]

\* x in container: substring test for two strings, membership by == for a
\* list, TypeError otherwise.
PyIn(x, container) ==
    IF container.t = "str"
    THEN IF x.t = "str" THEN BoolV(Contains(container.s, x.s)) ELSE Raise("TypeError")
    ELSE IF container.t = "list"
    THEN BoolV(\E i \in 1..Len(container.l) : PyEq(x, container.l[i]))
    ELSE Raise("TypeError")

\* container[key]
PyGetItem(container, key) ==
    IF container.t = "list" THEN ListGetItem(container.l, key)
    ELSE IF container.t = "str"
    THEN ListGetItem([i \in 1..Len(container.s) |-> StrV(<<container.s[i]>>)], key)
    ELSE Raise("TypeError")

PyCompare(op, a, b) ==
    CASE op = "==" -> BoolV(PyEq(a, b))
      [] op = "!=" -> BoolV(~PyEq(a, b))
      [] op = "in" -> PyIn(a, b)
      [] op = "not in" ->
            LET r == PyIn(a, b) IN IF IsRaise(r) THEN r ELSE BoolV(~r.b)

RECURSIVE Eval(_, _)
RECURSIVE EvalArgs(_, _)

\* The arguments of a call, left to right; the first exception wins.
EvalArgs(args, env) ==
    IF args = <<>> THEN ListV(<<>>)
    ELSE LET a == Eval(Head(args), env)
         IN  IF IsRaise(a) THEN a
             ELSE LET rest == EvalArgs(Tail(args), env)
                  IN  IF IsRaise(rest) THEN rest ELSE ListV(<<a>> \o rest.l)

\* env = [functions: the callable names, names: variable name -> value,
\*        ctx: the TemplateContext the registry's bound methods read].
\* The library's own default functions (int, float, str, rand, randint) are
\* called by no modelled expression and are left out.
Eval(e, env) ==
    CASE e.k = "const" -> e.val
      [] e.k = "name" ->
            IF e.id \in DOMAIN env.names THEN env.names[e.id]
            ELSE IF e.id \in env.functions THEN FuncV(e.id)
            ELSE Raise("NameNotDefined")
      [] e.k = "call" ->
            IF e.fn \notin env.functions THEN Raise("FunctionNotDefined")
            ELSE LET a == EvalArgs(e.args, env)
                 IN  IF IsRaise(a) THEN a ELSE CallFunction(env.ctx, e.fn, a.l)
      [] e.k = "compare" ->
            LET a == Eval(e.l, env)
            IN  IF IsRaise(a) THEN a
                ELSE LET b == Eval(e.r, env)
                     IN  IF IsRaise(b) THEN b ELSE PyCompare(e.op, a, b)
      [] e.k = "boolop" ->
            LET a == Eval(e.l, env)
            IN  IF IsRaise(a) THEN a
                ELSE IF e.op = "and" THEN (IF Truthy(a) THEN Eval(e.r, env) ELSE a)
                ELSE (IF Truthy(a) THEN a ELSE Eval(e.r, env))
      [] e.k = "not" ->
            LET a == Eval(e.e, env)
            IN  IF IsRaise(a) THEN a ELSE BoolV(~Truthy(a))
      [] e.k = "subscript" ->
            LET a == Eval(e.e, env)
            IN  IF IsRaise(a) THEN a
                ELSE LET i == Eval(e.idx, env)
                     IN  IF IsRaise(i) THEN i ELSE PyGetItem(a, i)
      [] e.k = "syntax_error" -> Raise("SyntaxError")

----------------------------------------------------------------------------
(* template/evaluator.py: evaluate_predicate *)

\* variables: name -> value, a callable being FuncV(name); c is the context
\* the callables are bound to.  Callable values become the interpreter's
\* functions, the others its names; every exception of the evaluation becomes
\* TemplateError, and so does a result that is not an instance of bool.
\* Mutation of evaluate_predicate: a result that is not a bool is coerced by
\* its truth value
evaluate_predicate_truthy(predicate, variables, c) ==
    LET functions == {n \in DOMAIN variables : variables[n].t = "function"}
        names == [n \in (DOMAIN variables) \ functions |-> variables[n]]
        r == Eval(predicate, [functions |-> functions, names |-> names, ctx |-> c])
    IN  IF IsRaise(r) THEN Raise("TemplateError")
        ELSE BoolV(Truthy(r))

evaluate_predicate(predicate, variables, c) ==
    LET functions == {n \in DOMAIN variables : variables[n].t = "function"}
        names == [n \in (DOMAIN variables) \ functions |-> variables[n]]
        r == Eval(predicate, [functions |-> functions, names |-> names, ctx |-> c])
    IN  IF IsRaise(r) THEN Raise("TemplateError")
        ELSE IF r.t # "bool" THEN Raise("TemplateError")
        ELSE r

----------------------------------------------------------------------------
(* template/evaluator.py: _preprocess_template, _postprocess_template *)

\* The sentinel "\x00ESCAPE_OPEN\x00" / "\x00ESCAPE_CLOSE\x00" and the
\* placeholder "\x01FUNC_<idx>\x01", each one token of a string.  To the
\* function-call pattern they are characters that are neither identifier
\* characters next to a parenthesis, nor whitespace, nor parentheses: the
\* control character that ends each of them separates its letters from
\* whatever follows.
ESCAPE_OPEN == "<ESCAPE_OPEN>"
ESCAPE_CLOSE == "<ESCAPE_CLOSE>"
Placeholder(idx) == "<FUNC_" \o ToString(idx) \o ">"

IsSentinel(ch) == ch \in {ESCAPE_OPEN, ESCAPE_CLOSE}

\* FUNCTION_CALL_PATTERN = ([a-zA-Z_][a-zA-Z0-9_]*)\s*\(([^()]*)\)
IsIdentStart(ch) == ch \in Letters \cup {"_"}
IsIdentChar(ch) == ch \in Letters \cup Digits \cup {"_"}
IsSpace(ch) == ch = " "
IsParen(ch) == ch \in {"(", ")"}

InClass(ch, cls) ==
    \/ (cls = "ident" /\ IsIdentChar(ch))
    \/ (cls = "space" /\ IsSpace(ch))
    \/ (cls = "noparen" /\ ~IsParen(ch))

RECURSIVE SkipWhile(_, _, _)
\* The first position >= i of s whose character is not of class cls
\* (Len(s) + 1 when there is none): the end of a greedy run.
SkipWhile(s, i, cls) ==
    IF i <= Len(s) /\ InClass(s[i], cls) THEN SkipWhile(s, i + 1, cls) ELSE i

NoMatch == [found |-> FALSE]

\* Mutation of MatchAt: the placeholder and whatever delimits it count as
\* identifier characters
MatchAt_delimited(s, i) ==
    LET IsName(ch) == IsIdentChar(ch) \/ Len(ch) > 1
        RECURSIVE SkipName(_)
        SkipName(j) == IF j <= Len(s) /\ IsName(s[j]) THEN SkipName(j + 1) ELSE j
    IN  IF ~(IsIdentStart(s[i]) \/ Len(s[i]) > 1) THEN NoMatch
        ELSE LET j == SkipName(i)
                 k == SkipWhile(s, j, "space")
             IN  IF k > Len(s) \/ s[k] # "(" THEN NoMatch
                 ELSE LET m == SkipWhile(s, k + 1, "noparen")
                      IN  IF m > Len(s) \/ s[m] # ")" THEN NoMatch
                          ELSE [found |-> TRUE,
                                func_name |-> SubSeq(s, i, j - 1),
                                args |-> SubSeq(s, k + 1, m - 1),
                                end |-> m]

\* The pattern's match starting exactly at position i, if any.  Each greedy
\* run has one candidate end only: a shorter identifier or whitespace run is
\* followed by a character of its own class, never by "(", and a shorter
\* argument run is followed by a non-parenthesis, never by ")".
MatchAt(s, i) ==
    IF ~IsIdentStart(s[i]) THEN NoMatch
    ELSE LET j == SkipWhile(s, i, "ident")
             k == SkipWhile(s, j, "space")
         IN  IF k > Len(s) \/ s[k] # "(" THEN NoMatch
             ELSE LET m == SkipWhile(s, k + 1, "noparen")
                  IN  IF m > Len(s) \/ s[m] # ")" THEN NoMatch
                      ELSE [found |-> TRUE,
                            func_name |-> SubSeq(s, i, j - 1),
                            args |-> SubSeq(s, k + 1, m - 1),
                            end |-> m]

RECURSIVE Sub(_, _, _)
\* FUNCTION_CALL_PATTERN.sub(replace_function, processed) from position p on,
\* placeholder_idx being idx: the leftmost match is replaced by the next
\* placeholder and recorded as (placeholder, f"{func_name}({args})"), and
\* the scan goes on behind it.
Sub(s, p, idx) ==
    LET starts == {i \in p..Len(s) : MatchAt(s, i).found}
        Replaced(i, m, rest) ==
            [out |-> SubSeq(s, p, i - 1) \o <<Placeholder(idx)>> \o rest.out,
             calls |-> <<[placeholder |-> Placeholder(idx),
                         expression |-> m.func_name \o <<"(">> \o m.args \o <<")">>]>>
                       \o rest.calls,
             idx |-> rest.idx]
    IN  IF starts = {} THEN [out |-> From(s, p), calls |-> <<>>, idx |-> idx]
        ELSE CHOOSE replaced \in
                UNION { { Replaced(i, m, rest) : rest \in {Sub(s, m.end + 1, idx + 1)} } :
                        <<i, m>> \in {<<j, MatchAt(s, j)>> :
                                         j \in {j \in starts : \A k \in starts : j <= k}} } :
                    TRUE

RECURSIVE ExtractLoop(_, _, _)
\* while prev != processed: prev = processed; processed = PATTERN.sub(...)
ExtractLoop(processed, function_calls, idx) ==
    CHOOSE looped \in
        { IF r.out = processed
          THEN [processed |-> processed, function_calls |-> function_calls]
          ELSE ExtractLoop(r.out, function_calls \o r.calls, r.idx) :
            r \in {Sub(processed, 1, idx)} } : TRUE

\* The escape replacements of _preprocess_template
EscapeParens(tpl) ==
    Replace(Replace(tpl, <<"(", "(">>, <<ESCAPE_OPEN>>), <<")", ")">>, <<ESCAPE_CLOSE>>)

_preprocess_template(tpl) ==
    ExtractLoop(EscapeParens(tpl), <<>>, 0)

\* Mutation of _postprocess_template: ESCAPE_CLOSE restored as the two
\* characters it was written with
_postprocess_template_pair(tpl) ==
    Replace(Replace(tpl, <<ESCAPE_OPEN>>, <<"(">>), <<ESCAPE_CLOSE>>, <<")", ")">>)

_postprocess_template(tpl) ==
    Replace(Replace(tpl, <<ESCAPE_OPEN>>, <<"(">>), <<ESCAPE_CLOSE>>, <<")">>)

----------------------------------------------------------------------------
(* Python's parser on an extracted expression f"{func_name}({args})".      *)
(* The grammar is the part of Python's the modelled templates reach: one   *)
(* call whose argument text is empty, one quoted string without escapes,   *)
(* one signed decimal integer or one identifier; any other text is a       *)
(* syntax error (the templates hold no comma, operator or adjacent         *)
(* literals inside a call).                                                *)

SyntaxError == [k |-> "syntax_error"]

RECURSIVE Strip(_)
\* str.strip() for the blank
Strip(s) ==
    IF s # <<>> /\ IsSpace(Head(s)) THEN Strip(Tail(s))
    ELSE IF s # <<>> /\ IsSpace(s[Len(s)]) THEN Strip(SubSeq(s, 1, Len(s) - 1))
    ELSE s

IsQuote(ch) == ch \in {"'", "\""}

\* 'text' or "text": the text may hold any character but the quote itself;
\* U+0001 (a placeholder) is an ordinary character of a string literal.
IsStringLiteral(s) ==
    /\ Len(s) >= 2
    /\ IsQuote(s[1])
    /\ s[Len(s)] = s[1]
    /\ \A i \in 2..(Len(s) - 1) : s[i] # s[1]

IsDigits(s) ==
    /\ Len(s) >= 1
    /\ \A i \in 1..Len(s) : s[i] \in Digits
    /\ (Len(s) > 1 => s[1] # "0")

DigitVal(ch) == CHOOSE d \in 0..9 : ToString(d) = ch

RECURSIVE DigitsVal(_)
DigitsVal(s) ==
    IF s = <<>> THEN 0 ELSE 10 * DigitsVal(SubSeq(s, 1, Len(s) - 1)) + DigitVal(s[Len(s)])

IsIdentifier(s) ==
    /\ Len(s) >= 1
    /\ IsIdentStart(s[1])
    /\ \A i \in 1..Len(s) : IsIdentChar(s[i])

\* The argument list of the call: [ok, args], args a sequence of expressions.
ParseArgs(text) ==
    LET a == Strip(text)
        One(e) == [ok |-> TRUE, args |-> <<e>>]
    IN  IF a = <<>> THEN [ok |-> TRUE, args |-> <<>>]
        ELSE IF IsStringLiteral(a) THEN One(Const(StrV(SubSeq(a, 2, Len(a) - 1))))
        ELSE IF IsDigits(a) THEN One(Const(IntV(DigitsVal(a))))
        ELSE IF Head(a) = "-" /\ IsDigits(Strip(Tail(a)))
        THEN One(Const(IntV(0 - DigitsVal(Strip(Tail(a))))))
        ELSE IF a = S_True THEN One(Const(BoolV(TRUE)))
        ELSE IF a = S_False THEN One(Const(BoolV(FALSE)))
        ELSE IF a = S_None THEN One(Const(NoneV))
        ELSE IF IsIdentifier(a) THEN One(Name(a))
        ELSE [ok |-> FALSE, args |-> <<>>]

\* ast.parse(expression): source text holding a null byte (an escape
\* sentinel) is rejected whole, and so is U+0001 outside a string literal.
ParseExpression(expression) ==
    IF \E i \in 1..Len(expression) : IsSentinel(expression[i]) THEN SyntaxError
    ELSE LET open == CHOOSE i \in 1..Len(expression) :
                        /\ expression[i] = "("
                        /\ \A j \in 1..(i - 1) : expression[j] # "("
             args == ParseArgs(SubSeq(expression, open + 1, Len(expression) - 1))
         IN  IF ~args.ok THEN SyntaxError
             ELSE Call(SubSeq(expression, 1, open - 1), args.args)

----------------------------------------------------------------------------
(* template/evaluator.py: evaluate_template *)

\* StrictSimpleEval(functions=functions): no variable is bound
NoNames == [n \in {} |-> NoneV]

\* create_function_registry(context): every registered name, as a callable
create_function_registry(c) ==
    [n \in RegisteredFunctions |-> FuncV(n)]

\* str(result) for a result that is not a str; the registry's functions
\* return str or bool only.
Stringify(x) ==
    IF x.t = "str" THEN x.s
    ELSE IF x.t = "bool" THEN (IF x.b THEN S_True ELSE S_False)
    ELSE <<"?">>

\* The except clauses of evaluate_template
TemplateExceptionOf(exc) ==
    CASE exc = "ValueError" -> "ContextError"
      [] exc = "TypeError" -> "FunctionTypeError"
      [] OTHER -> "TemplateError"

RECURSIVE EvaluateCalls(_, _, _)
\* for placeholder, expression in function_calls: evaluate the expression and
\* replace the placeholder in processed by the (stringified) result; the
\* first failing expression raises.
EvaluateCalls(processed, function_calls, c) ==
    IF function_calls = <<>> THEN StrV(processed)
    ELSE LET call == Head(function_calls)
             r == Eval(ParseExpression(call.expression),
                       [functions |-> DOMAIN create_function_registry(c),
                        names |-> NoNames,
                        ctx |-> c])
         IN  IF IsRaise(r) THEN Raise(TemplateExceptionOf(r.exc))
             ELSE EvaluateCalls(Replace(processed, <<call.placeholder>>, Stringify(r)),
                                Tail(function_calls), c)

\* Mutation of evaluate_template: the substituted result is scanned and
\* evaluated once more before it is returned
evaluate_template_rescan(tpl, c) ==
    LET pre == _preprocess_template(tpl)
        r == EvaluateCalls(pre.processed, pre.function_calls, c)
    IN  IF IsRaise(r) THEN r
        ELSE LET again == ExtractLoop(r.s, <<>>, 0)
                 r2 == EvaluateCalls(again.processed, again.function_calls, c)
             IN  IF IsRaise(r2) THEN r2 ELSE StrV(_postprocess_template(r2.s))

\* The end of evaluate_template: the escaped parentheses are restored in
\* the string the calls left; an exception goes through
PostprocessResult(r) ==
    IF IsRaise(r) THEN r ELSE StrV(_postprocess_template(r.s))

\* evaluate_template from the preprocessed template on
EvaluatePreprocessed(pre, c) ==
    PostprocessResult(EvaluateCalls(pre.processed, pre.function_calls, c))

evaluate_template(tpl, c) ==
    EvaluatePreprocessed(_preprocess_template(tpl), c)

----------------------------------------------------------------------------
(* config/validator.py: Config and SourceRule; config/resolver.py *)

\* sources / worktrees: a template (str) or None
SourceRule(name, predicate, sources, worktrees) ==
    [t |-> "SourceRule", name |-> name, predicate |-> predicate,
     sources |-> sources, worktrees |-> worktrees]

\* sources: the rules in the insertion order of the dict (its keys are the
\* rules' names)
Config(default_sources, default_worktrees, sources) ==
    [default_sources |-> default_sources, default_worktrees |-> default_worktrees,
     sources |-> sources]

\* The home directory of the user
HomeDir == Chars("/home/u")

\* _expand_home: Path(path).expanduser() for a path that starts with "~"
\* ("~" alone or "~/..."; "~name" names another user's home and is left to
\* the password database, which knows no such user: the path stays as it is)
_expand_home(path) ==
    IF StartsWith(path, <<"~">>) /\ (Len(path) = 1 \/ path[2] = "/")
    THEN HomeDir \o Tail(path)
    ELSE path

\* _build_uri_context: the URI's parts as plain (non-callable) values
_build_uri_context(u) ==
    Dict(<<<<S_host, StrV(u.host)>>,
           <<S_port, StrV(u.port)>>,
           <<S_protocol, StrV(u.protocol)>>,
           <<S_path, ListV([i \in 1..Len(u.path_segments) |-> StrV(u.path_segments[i])])>>,
           <<S_uri, StrV(u.uri)>>>>)

\* The context the predicate's callables would be bound to: there are none
NoContext == TemplateContext(NoneV, NoneV, NoTags)

RECURSIVE MatchFrom_last(_, _, _)
\* Mutation of MatchFrom: a later matching rule replaces an earlier one
MatchFrom_last(rules, i, context) ==
    IF i > Len(rules) THEN NoneV
    ELSE LET r == evaluate_predicate(rules[i].predicate, context, NoContext)
             later == MatchFrom_last(rules, i + 1, context)
         IN  IF IsTemplateError(r)
             THEN [t |-> "raise", exc |-> "ResolverError", rule |-> rules[i].name]
             ELSE IF r.b /\ IsNone(later) THEN rules[i]
             ELSE later

RECURSIVE MatchFrom(_, _, _)
\* for name, rule in config.sources.items(), from the i-th rule on: the
\* first rule whose predicate is True is returned; a TemplateError becomes a
\* ResolverError that names the rule; None when the rules are used up.
MatchFrom(rules, i, context) ==
    IF i > Len(rules) THEN NoneV
    ELSE LET r == evaluate_predicate(rules[i].predicate, context, NoContext)
         IN  IF IsTemplateError(r)
             THEN [t |-> "raise", exc |-> "ResolverError", rule |-> rules[i].name]
             ELSE IF r.b THEN rules[i]
             ELSE MatchFrom(rules, i + 1, context)

find_matching_source_rule(cfg, u) ==
    MatchFrom(cfg.sources, 1, _build_uri_context(u))

\* if rule and rule.sources: a rule object is true, a template is true
\* unless it is None or empty
SourcesTemplate(cfg, rule) ==
    IF ~IsNone(rule) /\ Truthy(rule.sources) THEN rule.sources.s ELSE cfg.default_sources

\* The end of resolve_source_path: a TemplateError of the template becomes a
\* ResolverError, a string is home-expanded and resolved
ToPath(path_str) ==
    IF IsTemplateError(path_str)
    THEN [t |-> "raise", exc |-> "ResolverError", rule |-> <<>>]
    ELSE [t |-> "Path", p |-> PathResolve(_expand_home(path_str.s))]

\* resolve_source_path from the rule found on: a ResolverError of the
\* matching goes through
ResolveWithRule(cfg, u, rule) ==
    IF IsRaise(rule) THEN rule
    ELSE ToPath(evaluate_template(SourcesTemplate(cfg, rule), TemplateContext(u, NoneV, NoTags)))

\* Mutation of resolve_source_path: a matching rule without a sources
\* template is passed over for the first matching rule that has one
resolve_source_path_next(cfg, u) ==
    LET HasSources(r) == Truthy(r.sources)
    IN  ResolveWithRule(cfg, u,
            MatchFrom(SelectSeq(cfg.sources, HasSources), 1, _build_uri_context(u)))

resolve_source_path(cfg, u) ==
    ResolveWithRule(cfg, u, find_matching_source_rule(cfg, u))

\* The fields of the dataclass TemplateContext
TemplateContextFields == {"uri", "branch", "source_path", "tags"}

\* TemplateContext(**kwargs): the generated __init__ accepts its fields as
\* keywords (each defaults to None, tags to an empty dict) and raises
\* TypeError for any other keyword
TemplateContextInit(kwargs) ==
    IF DOMAIN kwargs \subseteq TemplateContextFields
    THEN TemplateContext(IF "uri" \in DOMAIN kwargs THEN kwargs.uri ELSE NoneV,
                         IF "branch" \in DOMAIN kwargs THEN kwargs.branch ELSE NoneV,
                         IF "tags" \in DOMAIN kwargs THEN kwargs.tags ELSE NoTags)
    ELSE Raise("TypeError")

\* if rule and rule.worktrees
WorktreesTemplate(cfg, rule) ==
    IF ~IsNone(rule) /\ Truthy(rule.worktrees) THEN rule.worktrees.s
    ELSE cfg.default_worktrees

\* The end of resolve_worktree_path, from the context on: the TypeError of
\* the constructor is raised before the try statement and goes through
WorktreeInContext(tpl, c) ==
    IF IsRaise(c) THEN c ELSE ToPath(evaluate_template(tpl, c))

\* resolve_worktree_path from the rule found on
WorktreeWithRule(cfg, u, branch, worktree_name, rule) ==
    IF IsRaise(rule) THEN rule
    ELSE WorktreeInContext(WorktreesTemplate(cfg, rule),
            TemplateContextInit([uri |-> u, branch |-> branch,
                                 worktree_name |-> worktree_name]))

resolve_worktree_path(cfg, u, branch, worktree_name) ==
    WorktreeWithRule(cfg, u, branch, worktree_name, find_matching_source_rule(cfg, u))

----------------------------------------------------------------------------
(* Inputs: URIs, contexts and templates *)

\* ParsedURI values as parse_uri returns them for the repository's own
\* example URIs
U_github ==
    ParsedURI(Chars("https://github.com/user/repo.git"), Chars("https"),
              Chars("github.com"), S_empty, <<Chars("user"), Chars("repo")>>)
U_example ==
    ParsedURI(Chars("https://git.example.com/myorg/project.git"), Chars("https"),
              Chars("git.example.com"), S_empty, <<Chars("myorg"), Chars("project")>>)
U_port ==
    ParsedURI(Chars("http://git.example.com:3000/org/sub/repo.git"), Chars("http"),
              Chars("git.example.com"), Chars("3000"),
              <<Chars("org"), Chars("sub"), Chars("repo")>>)
U_file ==
    ParsedURI(Chars("file:///"), Chars("file"), S_empty, S_empty, <<>>)

\* Tag mappings: a plain value, an empty value, and values that read like
\* template syntax
Tags_prod == Dict(<<<<Chars("env"), Chars("prod")>>, <<Chars("debug"), S_empty>>>>)
Tags_syntax ==
    Dict(<<<<Chars("env"), Chars("host()")>>, <<Chars("f"), Chars("((x))")>>,
           <<Chars("sep"), Chars("_")>>>>)

\* A piece of template text: literal text, or one complete function call
\* (with the function and argument values it denotes)
Text(str) == [kind |-> "text", s |-> Chars(str)]
CallPiece(str, fn, args) == [kind |-> "call", s |-> Chars(str), fn |-> fn, args |-> args]

P_host == CallPiece("host()", S_host, <<>>)
P_port == CallPiece("port()", S_port, <<>>)
P_protocol == CallPiece("protocol()", S_protocol, <<>>)
P_uri == CallPiece("uri()", S_uri, <<>>)
P_path_m1 == CallPiece("path(-1)", S_path, <<IntV(-1)>>)
P_path_m2 == CallPiece("path(-2)", S_path, <<IntV(-2)>>)
P_branch == CallPiece("branch()", S_branch, <<>>)
P_norm_branch == CallPiece("norm_branch()", S_norm_branch, <<>>)
P_norm_branch_us == CallPiece("norm_branch(\"_\")", S_norm_branch, <<StrV(Chars("_"))>>)
P_tag_env == CallPiece("tag('env')", S_tag, <<StrV(Chars("env"))>>)
P_tag_f == CallPiece("tag('f')", S_tag, <<StrV(Chars("f"))>>)
P_tag_sep == CallPiece("tag('sep')", S_tag, <<StrV(Chars("sep"))>>)
P_tag_exist_env == CallPiece("tag_exist('env')", S_tag_exist, <<StrV(Chars("env"))>>)

RECURSIVE SeqsUpTo(_, _)
\* All sequences of at most n elements of S
SeqsUpTo(S, n) ==
    IF n = 0 THEN {<<>>}
    ELSE LET shorter == SeqsUpTo(S, n - 1)
         IN  shorter \cup {Append(q, x) : q \in shorter, x \in S}

\* "".join of the pieces' text
TemplateOf(ps) == Concat([i \in 1..Len(ps) |-> ps[i].s])

\* Two calls written one inside the other: outer(inner), and the same with a
\* blank before the closing parenthesis
NestedPiece(str, fn, inner) ==
    [kind |-> "nested", s |-> Chars(str), fn |-> fn, args |-> <<>>, inner |-> inner]

P_nested == NestedPiece("norm_branch(tag('sep'))", S_norm_branch, P_tag_sep)
P_nested_blank == NestedPiece("norm_branch(tag('sep') )", S_norm_branch, P_tag_sep)

TextPieces == {Text("~/"), Text("a"), Text("/"), Text("(("), Text("))"), Text("("), Text(")")}
CallPieces ==
    {P_host, P_port, P_protocol, P_uri, P_path_m1, P_branch, P_norm_branch,
     P_tag_env, P_tag_f, P_tag_exist_env}
NestedPieces == {P_nested, P_nested_blank}
Pieces == TextPieces \cup CallPieces \cup NestedPieces

\* The templates of the repository's documentation and tests
ExampleTemplates ==
    { <<Text("~/sources/"), P_tag_env, Text("/"), P_path_m2, Text("/"), P_path_m1>>,
      <<Text("~/worktrees/"), P_tag_env, Text("/"), P_path_m1, Text("/"), P_norm_branch>>,
      <<Text("a"), Text("(("), Text("b"), Text("))"), Text("c")>>,
      <<Text("~/"), P_path_m2, Text("/"), P_path_m1, Text("/"), P_norm_branch_us>> }

Branches == {NoneV, StrV(Chars("main")), StrV(Chars("feature/new-ui"))}
TagMappings == {NoTags, Tags_prod, Tags_syntax}
URIs == {U_github, U_example, U_port, U_file}

\* The contexts a template is evaluated in: every field bound, none bound,
\* and each of uri and branch bound without the other
TemplateContexts ==
    { TemplateContext(U_github, StrV(Chars("feature/new-ui")), Tags_prod),
      TemplateContext(NoneV, NoneV, NoTags),
      TemplateContext(U_port, NoneV, Tags_syntax),
      TemplateContext(NoneV, StrV(Chars("feature/new-ui")), Tags_syntax) }

NoConfig == Config(<<>>, <<>>, <<>>)
NoResult == [op |-> "none"]

----------------------------------------------------------------------------
(* The registry's functions, called directly *)

InitFunctions ==
    /\ config = NoConfig
    /\ uri = NoneV
    /\ ctx \in {TemplateContext(u, b, tg) :
                    u \in URIs \cup {NoneV}, b \in Branches, tg \in TagMappings}
    /\ parts = <<>>
    /\ template = <<>>
    /\ pc = "ready"
    /\ result = NoResult

\* The argument lists tried: none, one integer, one string
TagNames == {Chars("env"), Chars("debug"), Chars("f"), Chars("missing"), Chars("_")}
ArgLists ==
    {<<>>} \cup {<<IntV(i)>> : i \in (0 - MaxIndex)..MaxIndex}
           \cup {<<StrV(n)>> : n \in TagNames}

\* functions[fname](*args) on create_function_registry(ctx)
CallRegistered(fname, args) ==
    /\ pc = "ready"
    /\ result' = [op |-> "call", fname |-> fname, args |-> args,
                  value |-> CallFunction(ctx, fname, args)]
    /\ pc' = "done"
    /\ UNCHANGED <<config, uri, ctx, parts, template>>

\* ctx.uri.path(index)
CallUriPath(index) ==
    /\ pc = "ready"
    /\ ~IsNone(ctx.uri)
    /\ result' = [op |-> "ParsedURI.path", index |-> index,
                  value |-> ParsedURI_path(ctx.uri, IntV(index))]
    /\ pc' = "done"
    /\ UNCHANGED <<config, uri, ctx, parts, template>>

NextFunctions ==
    \/ \E fname \in RegisteredFunctions, args \in ArgLists : CallRegistered(fname, args)
    \/ \E index \in (0 - MaxIndex)..MaxIndex : CallUriPath(index)

SpecFunctions == InitFunctions /\ [][NextFunctions]_vars

\* A call of the registered function fname with one argument has returned
Called1(fname) ==
    /\ pc = "done"
    /\ result.op = "call"
    /\ result.fname = fname
    /\ Len(result.args) = 1

\* C4: for any name and any tags mapping, the empty one included, tag(name)
\* and tag_exist(name) complete without error; tag_exist(name) tells whether
\* name is a key of the mapping, tag(name) is the key's value and "" when
\* tag_exist(name) is false.  The converse fails: a key present with the
\* value "" has tag_exist(name) true and tag(name) = "" (C4_Witness).
C4_TagsNeverRaise ==
    /\ Called1(S_tag_exist) =>
            /\ result.value.t = "bool"
            /\ result.value.b =
                  (result.args[1].t = "str" /\ result.args[1].s \in DOMAIN ctx.tags)
    /\ Called1(S_tag) =>
            LET exists == CallFunction(ctx, S_tag_exist, result.args)
            IN  /\ result.value.t = "str"
                /\ exists.t = "bool"
                /\ ~exists.b => result.value.s = S_empty
                /\ exists.b => result.value.s = ctx.tags[result.args[1].s]

\* tag("debug") on tags {env: prod, debug: ""}: present, and empty
C4_Witness ==
    /\ Called1(S_tag)
    /\ result.args[1].t = "str"
    /\ result.args[1].s = Chars("debug")
    /\ result.args[1].s \in DOMAIN ctx.tags
    /\ result.value.t = "str"
    /\ result.value.s = S_empty

\* The value the claimed indexing gives for index i of the segments segs, a
\* record [ok, s]: segment i for 0 <= i < n, segment n + i for -n <= i < 0,
\* no value otherwise
SegmentAt(segs, i) ==
    LET n == Len(segs)
    IN  IF 0 <= i /\ i < n THEN [ok |-> TRUE, s |-> segs[i + 1]]
        ELSE IF 0 - n <= i /\ i < 0 THEN [ok |-> TRUE, s |-> segs[n + i + 1]]
        ELSE [ok |-> FALSE, s |-> <<>>]

\* C9: for a URI with n path segments, path(i) is segment i for 0 <= i < n
\* and segment n + i for -n <= i < 0, so path(i) = path(i - n) for 0 <= i < n;
\* for every other integer index it fails with an out-of-range error
\* (IndexError from ParsedURI.path, ValueError from the template function)
\* and returns no value.
C9_SignedIndexing ==
    /\ (Called1(S_path) /\ ~IsNone(ctx.uri) /\ result.args[1].t = "int") =>
            LET segs == ctx.uri.path_segments
                i == result.args[1].n
                want == SegmentAt(segs, i)
            IN  /\ want.ok => (result.value.t = "str" /\ result.value.s = want.s)
                /\ ~want.ok => (IsRaise(result.value) /\ result.value.exc = "ValueError")
                /\ (0 <= i /\ i < Len(segs)) =>
                        LET back == CallFunction(ctx, S_path, <<IntV(i - Len(segs))>>)
                        IN  back.t = "str" /\ back.s = result.value.s
    /\ (pc = "done" /\ result.op = "ParsedURI.path") =>
            LET want == SegmentAt(ctx.uri.path_segments, result.index)
            IN  /\ want.ok => (result.value.t = "str" /\ result.value.s = want.s)
                /\ ~want.ok => (IsRaise(result.value) /\ result.value.exc = "IndexError")

\* path(-3) on the three segments org/sub/repo: the first segment
C9_Witness ==
    /\ Called1(S_path)
    /\ ~IsNone(ctx.uri)
    /\ Len(ctx.uri.path_segments) = 3
    /\ result.args[1].t = "int"
    /\ result.args[1].n = -3
    /\ result.value.t = "str"
    /\ result.value.s = Chars("org")

\* path(3) on three segments: out of range
C9_WitnessOutOfRange ==
    /\ Called1(S_path)
    /\ ~IsNone(ctx.uri)
    /\ Len(ctx.uri.path_segments) = 3
    /\ result.args[1].t = "int"
    /\ result.args[1].n = 3
    /\ IsRaise(result.value)

----------------------------------------------------------------------------
(* evaluate_template *)

InitTemplate ==
    /\ config = NoConfig
    /\ uri = NoneV
    /\ ctx \in TemplateContexts
    /\ parts \in SeqsUpTo(Pieces, MaxParts) \cup ExampleTemplates
    /\ template = TemplateOf(parts)
    /\ pc = "ready"
    /\ result = NoResult

EvaluateTemplate ==
    /\ pc = "ready"
    /\ result' = [op |-> "evaluate_template", value |-> evaluate_template(template, ctx)]
    /\ pc' = "done"
    /\ UNCHANGED <<config, uri, ctx, parts, template>>

NextTemplate == EvaluateTemplate

SpecTemplate == InitTemplate /\ [][NextTemplate]_vars

Evaluated == pc = "done" /\ result.op = "evaluate_template"

\* The pieces ps read as written: each is a call or text that is free of
\* parentheses or is one escape sequence, no call follows text that would
\* lengthen its identifier, and none is followed by a closing parenthesis
\* (which would pair with the call's own into an escape sequence).
WellDelimited(ps) ==
    /\ \A i \in 1..Len(ps) :
          ps[i].kind = "call" \/ (ps[i].kind = "text" /\ ps[i].s \notin {<<"(">>, <<")">>})
    /\ \A i \in 1..(Len(ps) - 1) :
          /\ (ps[i + 1].kind = "call" /\ ps[i].kind = "text")
                => ~IsIdentChar(ps[i].s[Len(ps[i].s)])
          /\ (ps[i].kind = "call" /\ ps[i + 1].kind = "text")
                => Head(ps[i + 1].s) # ")"

\* What one piece stands for in context c: the value of the call, the
\* parenthesis an escape sequence denotes, or the text itself
PieceValue(p, c) ==
    IF p.kind = "call" THEN CallFunction(c, p.fn, p.args)
    ELSE IF p.s = <<"(", "(">> THEN StrV(<<"(">>)
    ELSE IF p.s = <<")", ")">> THEN StrV(<<")">>)
    ELSE StrV(p.s)

\* C5: evaluate_template returns the template with every embedded call
\* replaced by the stringified value of the call and all other text
\* unchanged; a substituted value is inserted literally and is never itself
\* scanned for calls or escape sequences.
C5_CallsReplacedLiterally ==
    (/\ Evaluated
     /\ WellDelimited(parts)
     /\ \A i \in 1..Len(parts) : ~IsRaise(PieceValue(parts[i], ctx)))
    => /\ result.value.t = "str"
       /\ result.value.s =
             Concat([i \in 1..Len(parts) |-> Stringify(PieceValue(parts[i], ctx))])

\* tag('env')tag('f') with tags {env: "host()", f: "((x))"} and a URI in the
\* context: the values appear verbatim
C5_Witness ==
    /\ Evaluated
    /\ template = Chars("tag('env')tag('f')")
    /\ ~IsNone(ctx.uri)
    /\ result.value.t = "str"
    /\ result.value.s = Chars("host()((x))")

\* The documented example
C5_WitnessExample ==
    /\ Evaluated
    /\ template = Chars("~/sources/tag('env')/path(-2)/path(-1)")
    /\ result.value.t = "str"
    /\ result.value.s = Chars("~/sources/prod/user/repo")

\* No text of the template, read after the escape sequences are taken out,
\* is a function call
NoFunctionCall(tpl) ==
    LET e == EscapeParens(tpl)
    IN  \A i \in 1..Len(e) : ~MatchAt(e, i).found

\* C6: for every template that contains no function call, evaluate_template
\* returns the template with each (( replaced by ( and each )) replaced by ),
\* without raising and with the same result (a function of the template
\* alone) in every context, the empty one included.
C6_EscapesOnly ==
    (Evaluated /\ NoFunctionCall(template))
    => /\ result.value.t = "str"
       /\ result.value.s =
             Replace(Replace(template, <<"(", "(">>, <<"(">>), <<")", ")">>, <<")">>)

\* a((b))c in the empty context gives a(b)c
C6_Witness ==
    /\ Evaluated
    /\ template = Chars("a((b))c")
    /\ IsNone(ctx.uri) /\ IsNone(ctx.branch) /\ DOMAIN ctx.tags = {}
    /\ result.value.t = "str"
    /\ result.value.s = Chars("a(b)c")

\* C7: for a template that is a call whose argument is itself a call, the
\* inner call is evaluated first and the result of the template is the outer
\* function applied to the inner call's value.
C7_NestedCallEvaluated ==
    (/\ Evaluated
     /\ Len(parts) = 1
     /\ parts[1].kind = "nested"
     /\ ~IsRaise(PieceValue(parts[1].inner, ctx))
     /\ ~IsRaise(CallFunction(ctx, parts[1].fn, <<PieceValue(parts[1].inner, ctx)>>)))
    => /\ result.value.t = "str"
       /\ result.value.s =
             Stringify(CallFunction(ctx, parts[1].fn, <<PieceValue(parts[1].inner, ctx)>>))

\* The functions that read the context's uri, and those that read its branch
NeedUri == {S_host, S_port, S_protocol, S_uri, S_path}
NeedBranch == {S_branch, S_norm_branch}

\* The piece is a call of a function whose context field is absent from c
LacksField(p, c) ==
    /\ p.kind = "call"
    /\ \/ (p.fn \in NeedUri /\ IsNone(c.uri))
       \/ (p.fn \in NeedBranch /\ IsNone(c.branch))

\* C8: host(), port(), protocol(), uri() and path(n) fail whenever the
\* context has no URI, branch() and norm_branch() whenever it has no branch;
\* a template with such a call makes evaluate_template raise a TemplateError
\* and produce no string.
C8_MissingContextFails ==
    (Evaluated /\ WellDelimited(parts))
    => \A i \in 1..Len(parts) :
          LacksField(parts[i], ctx)
          => /\ IsRaise(PieceValue(parts[i], ctx))
             /\ PieceValue(parts[i], ctx).exc = "ValueError"
             /\ IsRaise(result.value)
             /\ IsTemplateError(result.value)

\* branch() where the context has a URI and no branch, as in a sources
\* template
C8_Witness ==
    /\ Evaluated
    /\ template = Chars("~/branch()")
    /\ ~IsNone(ctx.uri)
    /\ IsNone(ctx.branch)
    /\ IsRaise(result.value)
    /\ result.value.exc = "ContextError"

----------------------------------------------------------------------------
(* evaluate_predicate, on the variables of a source rule's URI context and *)
(* on the callables of the function registry                               *)

Str(str) == Const(StrV(Chars(str)))

\* Predicates, as Python source and as the expression it parses to
Predicate(src, ast) == [src |-> src, ast |-> ast]

Predicates ==
    << Predicate("True", Const(BoolV(TRUE))),
       Predicate("False", Const(BoolV(FALSE))),
       Predicate("'x'", Str("x")),
       Predicate("''", Str("")),
       Predicate("1", Const(IntV(1))),
       Predicate("0", Const(IntV(0))),
       Predicate("None", Const(NoneV)),
       Predicate("path", Name(S_path)),
       Predicate("host", Name(S_host)),
       Predicate("path[0]", Subscript(Name(S_path), Const(IntV(0)))),
       Predicate("undefined", Name(Chars("undefined"))),
       Predicate("\"github\" in host", Compare("in", Str("github"), Name(S_host))),
       Predicate("\"github\" in host()", Compare("in", Str("github"), Call(S_host, <<>>))),
       Predicate("path[0] == \"myorg\"",
                 Compare("==", Subscript(Name(S_path), Const(IntV(0))), Str("myorg"))),
       Predicate("path()[0] == \"myorg\"",
                 Compare("==", Subscript(Call(S_path, <<>>), Const(IntV(0))), Str("myorg"))),
       Predicate("path(0) == \"myorg\"",
                 Compare("==", Call(S_path, <<Const(IntV(0))>>), Str("myorg"))),
       Predicate("not host", Not(Name(S_host))),
       Predicate("True and 'x'", BoolOp("and", Const(BoolV(TRUE)), Str("x"))),
       Predicate("'' or False", BoolOp("or", Str(""), Const(BoolV(FALSE)))),
       Predicate("tag_exist('env')", Call(S_tag_exist, <<Str("env")>>)),
       Predicate("tag('env')", Call(S_tag, <<Str("env")>>)),
       Predicate("tag('env') == 'prod'", Compare("==", Call(S_tag, <<Str("env")>>), Str("prod"))),
       Predicate("\"user\" in path", Compare("in", Str("user"), Name(S_path))),
       Predicate("host != \"github.com\" and port == \"3000\"",
                 BoolOp("and", Compare("!=", Name(S_host), Str("github.com")),
                               Compare("==", Name(S_port), Str("3000")))) >>

InitPredicate ==
    /\ config = NoConfig
    /\ uri \in URIs
    /\ ctx \in {TemplateContext(uri, b, tg) : b \in Branches, tg \in TagMappings}
    /\ parts = <<>>
    /\ template = <<>>
    /\ pc = "ready"
    /\ result = NoResult

\* evaluate_predicate(rule.predicate, _build_uri_context(uri)), as
\* find_matching_source_rule calls it
EvaluateUriPredicate(pred) ==
    /\ pc = "ready"
    /\ result' = [op |-> "evaluate_predicate", dialect |-> "variables",
                  src |-> pred.src, ast |-> pred.ast,
                  value |-> evaluate_predicate(pred.ast, _build_uri_context(uri), NoContext)]
    /\ pc' = "done"
    /\ UNCHANGED <<config, uri, ctx, parts, template>>

\* evaluate_predicate(rule.predicate, create_function_registry(context)), as
\* the action matcher calls it
EvaluateFunctionPredicate(pred) ==
    /\ pc = "ready"
    /\ result' = [op |-> "evaluate_predicate", dialect |-> "functions",
                  src |-> pred.src, ast |-> pred.ast,
                  value |-> evaluate_predicate(pred.ast, create_function_registry(ctx), ctx)]
    /\ pc' = "done"
    /\ UNCHANGED <<config, uri, ctx, parts, template>>

NextPredicate ==
    \/ \E i \in 1..Len(Predicates) : EvaluateUriPredicate(Predicates[i])
    \/ \E i \in 1..Len(Predicates) : EvaluateFunctionPredicate(Predicates[i])

SpecPredicate == InitPredicate /\ [][NextPredicate]_vars

PredicateEvaluated == pc = "done" /\ result.op = "evaluate_predicate"

\* The value the interpreter gives the evaluated predicate
RawValue ==
    IF result.dialect = "variables"
    THEN Eval(result.ast, [functions |-> {}, names |-> _build_uri_context(uri),
                           ctx |-> NoContext])
    ELSE Eval(result.ast, [functions |-> RegisteredFunctions, names |-> NoNames,
                           ctx |-> ctx])

\* C3: evaluate_predicate returns only True or False; for every predicate
\* whose value is not strictly a boolean (a string, a number, a list, None)
\* it raises TemplateError and never coerces by truthiness.
C3_StrictBoolean ==
    PredicateEvaluated =>
        /\ result.value.t \in {"bool", "raise"}
        /\ IsRaise(result.value) => result.value.exc = "TemplateError"
        /\ RawValue.t = "bool" => (result.value.t = "bool" /\ result.value.b = RawValue.b)
        /\ RawValue.t # "bool" => IsRaise(result.value)

\* The predicate 'x', a non-empty (truthy) string, raises
C3_Witness ==
    /\ PredicateEvaluated
    /\ result.src = "'x'"
    /\ RawValue.t = "str"
    /\ IsRaise(result.value)
    /\ result.value.exc = "TemplateError"

\* C10: path() called with no argument returns the full ordered list of
\* path segments, so that a predicate such as path()[0] == "myorg" is true
\* exactly for URIs whose first path segment is myorg.
C10_PathListPredicate ==
    (/\ PredicateEvaluated
     /\ result.src = "path()[0] == \"myorg\""
     /\ Len(uri.path_segments) >= 1)
    => /\ result.value.t = "bool"
       /\ result.value.b = (uri.path_segments[1] = Chars("myorg"))

----------------------------------------------------------------------------
(* config/resolver.py: find_matching_source_rule and resolve_source_path   *)

\* "github" in host() and tag_exist("env")
TaggedPredicate ==
    BoolOp("and", Compare("in", Str("github"), Call(S_host, <<>>)),
                  Call(S_tag_exist, <<Str("env")>>))

\* The predicates of the source rules: always true, always false, tests of
\* the URI's host and path, a string, and the call forms of the unit tests
RulePredicates ==
    << Const(BoolV(TRUE)),
       Const(BoolV(FALSE)),
       Compare("in", Str("github"), Name(S_host)),
       Compare("==", Subscript(Name(S_path), Const(IntV(0))), Str("myorg")),
       Str("x"),
       Compare("==", Subscript(Call(S_path, <<>>), Const(IntV(0))), Str("myorg")),
       TaggedPredicate >>

\* The i-th rule of a config: its key, and its sources template when it has
\* one
RuleName(i) == Chars("rule") \o <<ToString(i)>>
RuleSources(i) == Chars("~/r") \o <<ToString(i)>> \o Chars("/path(-1)")
RuleWorktrees(i) == Chars("~/r") \o <<ToString(i)>> \o Chars("/path(-1)/branch()")

\* The templates a rule has: none, a sources template, or both
RuleKinds == {"none", "sources", "both"}

DefaultSources == Chars("~/d/path(-1)")
DefaultWorktrees == Chars("~/w/path(-1)/norm_branch()")

\* The configs with n rules
ConfigsOf(n) ==
    { Config(DefaultSources, DefaultWorktrees,
             [i \in 1..n |->
                SourceRule(RuleName(i), RulePredicates[ps[i]],
                           IF ks[i] # "none" THEN StrV(RuleSources(i)) ELSE NoneV,
                           IF ks[i] = "both" THEN StrV(RuleWorktrees(i)) ELSE NoneV)]) :
        ps \in [1..n -> 1..Len(RulePredicates)], ks \in [1..n -> RuleKinds] }

InitResolver ==
    /\ config \in UNION {ConfigsOf(n) : n \in 0..MaxRules}
    /\ uri \in URIs
    /\ ctx = TemplateContext(uri, NoneV, NoTags)
    /\ parts = <<>>
    /\ template = <<>>
    /\ pc = "ready"
    /\ result = NoResult

FindMatchingSourceRule ==
    /\ pc = "ready"
    /\ result' = [op |-> "find_matching_source_rule",
                  value |-> find_matching_source_rule(config, uri)]
    /\ pc' = "done"
    /\ UNCHANGED <<config, uri, ctx, parts, template>>

ResolveSourcePath ==
    /\ pc = "ready"
    /\ result' = [op |-> "resolve_source_path",
                  value |-> resolve_source_path(config, uri)]
    /\ pc' = "done"
    /\ UNCHANGED <<config, uri, ctx, parts, template>>

\* resolve_worktree_path(config, uri, branch), worktree_name left to its
\* default
ResolveWorktreePath ==
    /\ pc = "ready"
    /\ \E b \in Branches \ {NoneV} :
          result' = [op |-> "resolve_worktree_path", branch |-> b,
                     value |-> resolve_worktree_path(config, uri, b, NoneV)]
    /\ pc' = "done"
    /\ UNCHANGED <<config, uri, ctx, parts, template>>

NextResolver ==
    \/ FindMatchingSourceRule
    \/ ResolveSourcePath
    \/ ResolveWorktreePath

SpecResolver == InitResolver /\ [][NextResolver]_vars

\* The i-th rule's predicate on the URI: true, or failing
Matches(i) ==
    LET r == evaluate_predicate(config.sources[i].predicate, _build_uri_context(uri), NoContext)
    IN  r.t = "bool" /\ r.b
Fails(i) ==
    IsRaise(evaluate_predicate(config.sources[i].predicate, _build_uri_context(uri), NoContext))

\* Rule i is the first whose predicate is true, no earlier predicate failing
FirstMatch(i) ==
    /\ i \in 1..Len(config.sources)
    /\ Matches(i)
    /\ \A j \in 1..(i - 1) : ~Matches(j) /\ ~Fails(j)

\* C1: source-rule routing selects the first rule, in the insertion order
\* of config.sources, whose predicate evaluates to true; a rule is never
\* selected while an earlier rule's predicate is true, and no rule is
\* returned only when no predicate is true.
C1_FirstMatchWins ==
    (pc = "done" /\ result.op = "find_matching_source_rule") =>
        LET n == Len(config.sources)
            v == result.value
        IN  /\ \A i \in 1..n : FirstMatch(i) =>
                  (v.t = "SourceRule" /\ v.name = config.sources[i].name)
            /\ v.t = "SourceRule" =>
                  \E i \in 1..n :
                      /\ v.name = config.sources[i].name
                      /\ Matches(i)
                      /\ \A j \in 1..(i - 1) : ~Matches(j)
            /\ IsNone(v) => \A i \in 1..n : ~Matches(i)
            /\ (\A i \in 1..n : ~Matches(i) /\ ~Fails(i)) => IsNone(v)

\* Two rules whose predicates are both true: the first is selected
C1_Witness ==
    /\ pc = "done"
    /\ result.op = "find_matching_source_rule"
    /\ Len(config.sources) = 2
    /\ Matches(1)
    /\ Matches(2)
    /\ result.value.t = "SourceRule"
    /\ result.value.name = RuleName(1)

\* The template resolve_source_path is to expand: the sources template of
\* the first matching rule when it has one, config.default_sources otherwise
WinningTemplate ==
    IF \E i \in 1..Len(config.sources) : FirstMatch(i) /\ Truthy(config.sources[i].sources)
    THEN LET i == CHOOSE k \in 1..Len(config.sources) : FirstMatch(k)
         IN  config.sources[i].sources.s
    ELSE config.default_sources

C11_UriAndTagFunctionsCallable ==
    (/\ pc = "done"
     /\ result.op = "find_matching_source_rule"
     /\ Len(config.sources) = 1
     /\ config.sources[1].predicate = TaggedPredicate)
    => /\ ~IsRaise(result.value)
       /\ (result.value.t = "SourceRule") <=>
             (Contains(uri.host, Chars("github")) /\ Chars("env") \in DOMAIN ctx.tags)

\* The template resolve_worktree_path is to expand: the worktrees template
\* of the first matching rule when it has one, config.default_worktrees
\* otherwise
WinningWorktrees ==
    IF \E i \in 1..Len(config.sources) : FirstMatch(i) /\ Truthy(config.sources[i].worktrees)
    THEN LET i == CHOOSE k \in 1..Len(config.sources) : FirstMatch(k)
         IN  config.sources[i].worktrees.s
    ELSE config.default_worktrees

\* C12: resolve_worktree_path follows the algorithm of resolve_source_path:
\* it selects the same rule, expands that rule's worktrees template if set
\* and config.default_worktrees otherwise, with branch() and norm_branch(sep)
\* bound to the given branch, and returns an absolute path whenever the
\* template uses only bound functions.
C12_WorktreePathLikeSourcePath ==
    (/\ pc = "done"
     /\ result.op = "resolve_worktree_path"
     /\ \A i \in 1..Len(config.sources) :
           Fails(i) => \E j \in 1..(i - 1) : FirstMatch(j))
    => LET expanded == evaluate_template(WinningWorktrees,
                                         TemplateContext(uri, result.branch, NoTags))
       IN  IF IsRaise(expanded)
           THEN IsRaise(result.value) /\ result.value.exc = "ResolverError"
           ELSE /\ result.value.t = "Path"
                /\ result.value.p = PathResolve(_expand_home(expanded.s))
                /\ Head(result.value.p) = "/"

----------------------------------------------------------------------------
(* actions/matcher.py and the dataclasses Action and ProjectRule *)

\* args: the argument strings; for a command, the single command string
Action(action_type, args) == [action_type |-> action_type, args |-> args]

ProjectRule(predicate, after_clone, after_add) ==
    [t |-> "ProjectRule", predicate |-> predicate,
     after_clone |-> after_clone, after_add |-> after_add]

\* What the project functions read from the environment
FileSystem(files, dirs, cwd_root) ==
    [files |-> files, dirs |-> dirs, cwd_root |-> cwd_root]

\* _create_predicate_context: the registry of TemplateContext(source_path,
\* tags) with the project functions added, every name a callable.  c is the
\* context the callables are bound to.
_create_predicate_context(source_path, tags, dest_path, fs) ==
    [variables |-> [n \in RegisteredFunctions \cup ProjectFunctions |-> FuncV(n)],
     c |-> [uri |-> NoneV, branch |-> NoneV, tags |-> tags,
            source_path |-> source_path, dest_path |-> dest_path,
            files |-> fs.files, dirs |-> fs.dirs, cwd_root |-> fs.cwd_root]]

\* Mutation of _create_predicate_context_tags: the context fills in a
\* missing env key of the mapping it was handed
_create_predicate_context_tags_setdefault(tags) ==
    [n \in DOMAIN tags \cup {Chars("env")} |->
        IF n \in DOMAIN tags THEN tags[n] ELSE S_empty]

\* The tags mapping after _create_predicate_context(source_path, tags,
\* dest_path): TemplateContext keeps a reference to it, the registry reads
\* it, and functions.update writes to the copy that get_functions returned
_create_predicate_context_tags(tags) == tags

RECURSIVE EvaluateCommandCalls(_, _, _)
\* The calls of a command template, evaluated with the functions of the
\* predicate context
EvaluateCommandCalls(processed, function_calls, context) ==
    IF function_calls = <<>> THEN StrV(processed)
    ELSE LET call == Head(function_calls)
             r == Eval(ParseExpression(call.expression),
                       [functions |-> DOMAIN context.variables,
                        names |-> NoNames,
                        ctx |-> context.c])
         IN  IF IsRaise(r) THEN Raise(TemplateExceptionOf(r.exc))
             ELSE EvaluateCommandCalls(Replace(processed, <<call.placeholder>>, Stringify(r)),
                                       Tail(function_calls), context)

\* evaluate_command_template(command_template, context): evaluate_template
\* with the functions of the context
EvaluateCommandPreprocessed(pre, context) ==
    PostprocessResult(EvaluateCommandCalls(pre.processed, pre.function_calls, context))

evaluate_command_template(command_template, context) ==
    EvaluateCommandPreprocessed(_preprocess_template(command_template), context)

\* shlex.split(s): a shlex in POSIX mode with whitespace_split set and no
\* comment characters
ShlexWhitespace == {" ", "\t", "\r", "\n"}
ShlexQuotes == {"'", "\""}
ShlexEscape == "\\"
ShlexEscapedQuotes == {"\""}

RECURSIVE ShlexFrom(_, _, _, _, _, _, _)
\* shlex.read_token, called until the input is used up, from the i-th
\* character on: state is " " between tokens, "a" inside a word, a quote
\* character inside quotes and the escape character after one;
\* escapedstate is the state an escape returns to; token is the word being
\* read, quoted whether it had a quoted part, out the words read so far.
\* The end of the input inside quotes or after an escape character raises
\* ValueError.
ShlexFrom(s, i, state, escapedstate, token, quoted, out) ==
    IF i > Len(s)
    THEN IF state \in ShlexQuotes \/ state = ShlexEscape THEN Raise("ValueError")
         ELSE IF token # <<>> \/ quoted THEN ListV(Append(out, token))
         ELSE ListV(out)
    ELSE LET ch == s[i]
         IN  IF state = " "
             THEN IF ch \in ShlexWhitespace
                  THEN ShlexFrom(s, i + 1, " ", escapedstate, token, quoted, out)
                  ELSE IF ch = ShlexEscape
                  THEN ShlexFrom(s, i + 1, ch, "a", token, quoted, out)
                  ELSE IF ch \in ShlexQuotes
                  THEN ShlexFrom(s, i + 1, ch, escapedstate, token, quoted, out)
                  ELSE ShlexFrom(s, i + 1, "a", escapedstate, <<ch>>, quoted, out)
             ELSE IF state \in ShlexQuotes
             THEN IF ch = state
                  THEN ShlexFrom(s, i + 1, "a", escapedstate, token, TRUE, out)
                  ELSE IF ch = ShlexEscape /\ state \in ShlexEscapedQuotes
                  THEN ShlexFrom(s, i + 1, ch, state, token, TRUE, out)
                  ELSE ShlexFrom(s, i + 1, state, escapedstate, Append(token, ch), TRUE, out)
             ELSE IF state = ShlexEscape
             THEN ShlexFrom(s, i + 1, escapedstate, escapedstate,
                            IF escapedstate \in ShlexQuotes /\ ch # state /\ ch # escapedstate
                            THEN token \o <<state, ch>>
                            ELSE Append(token, ch),
                            quoted, out)
             ELSE IF ch \in ShlexWhitespace
                  THEN IF token # <<>> \/ quoted
                       THEN ShlexFrom(s, i + 1, " ", " ", <<>>, FALSE, Append(out, token))
                       ELSE ShlexFrom(s, i + 1, " ", escapedstate, token, quoted, out)
                  ELSE IF ch \in ShlexQuotes
                  THEN ShlexFrom(s, i + 1, ch, escapedstate, token, quoted, out)
                  ELSE IF ch = ShlexEscape
                  THEN ShlexFrom(s, i + 1, ch, "a", token, quoted, out)
                  ELSE ShlexFrom(s, i + 1, state, escapedstate, Append(token, ch), quoted, out)

shlex_split(s) == ShlexFrom(s, 1, " ", " ", <<>>, FALSE, <<>>)

\* The pair (action_type, args) the matcher returns for an action
ActionTuple(action_type, args) ==
    [t |-> "tuple", action_type |-> action_type, args |-> args]

\* Mutation of SplitCommand: the ValueError of shlex.split is not caught
SplitCommand_uncaught(action_type, parsed_args) ==
    IF IsRaise(parsed_args) THEN parsed_args
    ELSE ActionTuple(action_type, parsed_args.l)

\* The end of _process_action for a command: the words of the split; a
\* ValueError of shlex.split becomes MatcherError
SplitCommand(action_type, parsed_args) ==
    IF IsRaise(parsed_args) THEN Raise("MatcherError")
    ELSE ActionTuple(action_type, parsed_args.l)

\* Mutation of ProcessCommand: the expanded command is returned as one
\* argument, not split
ProcessCommand_unsplit(action_type, evaluated_command) ==
    IF IsTemplateError(evaluated_command) THEN Raise("MatcherError")
    ELSE ActionTuple(action_type, <<evaluated_command.s>>)

\* _process_action for a command from the evaluated command on: a
\* TemplateError of the expansion becomes MatcherError
ProcessCommand(action_type, evaluated_command) ==
    IF IsTemplateError(evaluated_command) THEN Raise("MatcherError")
    ELSE SplitCommand(action_type, shlex_split(evaluated_command.s))

\* _process_action: a command's single string is expanded, then split into
\* words; the other actions are returned as they are
_process_action(action, context) ==
    IF action.action_type = "command"
    THEN ProcessCommand(action.action_type,
                        evaluate_command_template(action.args[1], context))
    ELSE ActionTuple(action.action_type, action.args)

RECURSIVE MatchProjectsFrom_first(_, _, _, _)
\* Mutation of MatchProjectsFrom: the loop ends at the first matching rule
MatchProjectsFrom_first(rules, i, context, matching) ==
    IF i >= Len(rules) THEN ListV(matching)
    ELSE LET r == evaluate_predicate(rules[i + 1].predicate, context.variables, context.c)
         IN  IF IsTemplateError(r)
             THEN [t |-> "raise", exc |-> "MatcherError", index |-> i]
             ELSE IF r.b THEN ListV(Append(matching, rules[i + 1]))
             ELSE MatchProjectsFrom_first(rules, i + 1, context, matching)

RECURSIVE MatchProjectsFrom(_, _, _, _)
\* for i, rule in enumerate(rules), from the i-th rule on (i counts from 0):
\* a rule whose predicate is True is appended to matching; a TemplateError
\* becomes a MatcherError that names the index of the rule
MatchProjectsFrom(rules, i, context, matching) ==
    IF i >= Len(rules) THEN ListV(matching)
    ELSE LET r == evaluate_predicate(rules[i + 1].predicate, context.variables, context.c)
         IN  IF IsTemplateError(r)
             THEN [t |-> "raise", exc |-> "MatcherError", index |-> i]
             ELSE MatchProjectsFrom(rules, i + 1, context,
                                    IF r.b THEN Append(matching, rules[i + 1]) ELSE matching)

find_matching_projects(rules, source_path, tags, dest_path, fs) ==
    MatchProjectsFrom(rules, 0, _create_predicate_context(source_path, tags, dest_path, fs),
                      <<>>)

RECURSIVE ProcessActions(_, _, _)
\* actions.append(_process_action(action, context)) for the actions in
\* order; the first MatcherError ends the loop
ProcessActions(todo, context, actions) ==
    IF todo = <<>> THEN ListV(actions)
    ELSE LET a == _process_action(Head(todo), context)
         IN  IF IsRaise(a) THEN a
             ELSE ProcessActions(Tail(todo), context, Append(actions, a))

\* The actions of the matching rules, rule after rule: the after_clone
\* lists or the after_add lists
ActionsOf(matching, after_clone) ==
    Concat([k \in 1..Len(matching) |->
              IF after_clone THEN matching[k].after_clone ELSE matching[k].after_add])

\* get_source_actions and get_worktree_actions from the matching rules on:
\* a MatcherError of the matching goes through
ActionsOfMatching(matching, after_clone, context) ==
    IF IsRaise(matching) THEN matching
    ELSE ProcessActions(ActionsOf(matching.l, after_clone), context, <<>>)

\* for rule in matching: for action in rule.after_clone
get_source_actions(rules, source_path, tags, dest_path, fs) ==
    ActionsOfMatching(find_matching_projects(rules, source_path, tags, dest_path, fs),
                      TRUE, _create_predicate_context(source_path, tags, dest_path, fs))

\* for rule in matching: for action in rule.after_add
get_worktree_actions(rules, source_path, tags, dest_path, fs) ==
    ActionsOfMatching(find_matching_projects(rules, source_path, tags, dest_path, fs),
                      FALSE, _create_predicate_context(source_path, tags, dest_path, fs))

----------------------------------------------------------------------------
(* Project matching, with path resolution beside it *)

PathV(str) == [t |-> "Path", p |-> Chars(str)]

\* Tags of the matcher's tests: prompt -> /review, env -> x
Tags_review ==
    Dict(<<<<Chars("prompt"), Chars("/review")>>, <<Chars("env"), Chars("x")>>>>)

\* The predicates of the project rules: True, False, tag_exist("env"),
\* file_exists("package.json"), and two that fail: an undefined variable,
\* and host() without a URI in the context
ProjectPredicates ==
    << Const(BoolV(TRUE)),
       Const(BoolV(FALSE)),
       Call(S_tag_exist, <<Str("env")>>),
       Call(S_file_exists, <<Str("package.json")>>),
       Name(Chars("undefined_variable")),
       Call(S_host, <<>>) >>

Command(str) == Action("command", <<str>>)

\* The program the first command of the i-th rule runs: claude, claude2, ...
ProgramOf(i) == Chars("claude") \o (IF i = 1 THEN <<>> ELSE <<ToString(i)>>)

\* The actions of the i-th rule.  after_clone: a command with a call and a
\* second action, which is a command with quotes and escaped parentheses, a
\* copy whose argument reads like a call, a command with an unknown
\* function, or a command with an unclosed quote.  after_add: a copy and a
\* command.
AfterClone(i, kind) ==
    << Command(ProgramOf(i) \o Chars(" -p tag('prompt')")),
       CASE kind = "command" -> Command(<<"e", ToString(i)>> \o Chars(" 'a b' ((x))"))
         [] kind = "copy" -> Action("abs_copy", <<Chars("tag('prompt')"), <<"d", ToString(i)>>>>)
         [] kind = "bad_template" -> Command(Chars("nope()"))
         [] kind = "bad_quote" -> Command(Chars("echo 'x")) >>

AfterAdd(i) ==
    << Action("rel_copy", <<<<"f", ToString(i)>>>>),
       Command(<<"w", ToString(i)>> \o Chars(" dest_path()")) >>

\* The rules a config has at one place: a predicate (by its number) and the
\* kind of its second after_clone action
RuleVariants ==
    { <<1, "command">>, <<1, "copy">>, <<1, "bad_template">>, <<1, "bad_quote">>,
      <<2, "bad_template">>, <<3, "command">>, <<4, "copy">>,
      <<5, "command">>, <<6, "copy">> }

ProjectRulesOf(n) ==
    { [i \in 1..n |-> ProjectRule(ProjectPredicates[vs[i][1]],
                                  AfterClone(i, vs[i][2]), AfterAdd(i))] :
        vs \in [1..n -> RuleVariants] }

\* A config with project rules: Config.actions
ConfigWithActions(cfg, actions) ==
    [default_sources |-> cfg.default_sources, default_worktrees |-> cfg.default_worktrees,
     sources |-> cfg.sources, actions |-> actions]

\* The configs of the path resolution beside the matching: no source rule,
\* one rule, and a rule that never matches followed by one rule
SourceConfigs ==
    ConfigsOf(0) \cup ConfigsOf(1)
    \cup { c \in ConfigsOf(2) : c.sources[1].predicate = Const(BoolV(FALSE))
                                /\ IsNone(c.sources[1].sources) }

\* What a caller of the matcher holds: the tags it may pass, the shared
\* default object of the matcher functions' tags parameter, the two paths
\* and the file system
MatcherContext(tags, dest_path, fs) ==
    [tags |-> tags, default_tags |-> NoTags,
     source_path |-> PathV("/home/u/d/repo"), dest_path |-> dest_path, fs |-> fs]

\* A tag value of two words
Tags_spaced == Dict(<<<<Chars("prompt"), Chars("re view")>>>>)

MatcherContexts ==
    { MatcherContext(Tags_spaced, NoneV, FileSystem({}, {}, S_empty)),
      MatcherContext(Tags_review, PathV("/home/u/w/repo/../repo/main"),
                     FileSystem({Chars("package.json")}, {Chars("src")}, Cwd)) }

InitMatcher ==
    /\ \/ /\ config \in { ConfigWithActions(Config(DefaultSources, DefaultWorktrees, <<>>), rs) :
                            rs \in UNION {ProjectRulesOf(n) : n \in 0..MaxRules} }
          /\ uri = U_github
          /\ ctx \in MatcherContexts
       \/ /\ config \in { ConfigWithActions(c, <<>>) : c \in SourceConfigs }
          /\ uri \in URIs
          /\ ctx = MatcherContext(NoTags, NoneV, FileSystem({}, {}, S_empty))
    /\ parts = <<>>
    /\ template = <<>>
    /\ pc = "ready"
    /\ result = NoResult

\* The position after a call: a second call may follow the first
AfterCall == IF pc = "ready" THEN "again" ELSE "done"

\* Whether the call before this one passed tags ("none" for a first call)
Before == IF pc = "ready" THEN "none" ELSE IF result.given THEN "given" ELSE "omitted"

RECURSIVE TagsAfter(_, _)
\* The tags mapping after n calls of _create_predicate_context with it
TagsAfter(tags, n) ==
    IF n = 0 THEN tags ELSE TagsAfter(_create_predicate_context_tags(tags), n - 1)

\* The caller's state after a matcher function that built n predicate
\* contexts: tags is the mapping the caller passed, or the shared default
\* when it passed none
CallerAfter(given, n) ==
    IF given THEN [ctx EXCEPT !.tags = TagsAfter(@, n)]
    ELSE [ctx EXCEPT !.default_tags = TagsAfter(@, n)]

FindMatchingProjects ==
    /\ pc \in {"ready", "again"}
    /\ \E given \in BOOLEAN :
          /\ result' = [op |-> "find_matching_projects", given |-> given, before |-> Before,
                        value |-> find_matching_projects(config.actions, ctx.source_path,
                                     IF given THEN ctx.tags ELSE ctx.default_tags,
                                     ctx.dest_path, ctx.fs)]
          /\ ctx' = CallerAfter(given, 1)
    /\ pc' = AfterCall
    /\ UNCHANGED <<config, uri, parts, template>>

GetSourceActions ==
    /\ pc \in {"ready", "again"}
    /\ \E given \in BOOLEAN :
          /\ result' = [op |-> "get_source_actions", given |-> given, before |-> Before,
                        value |-> get_source_actions(config.actions, ctx.source_path,
                                     IF given THEN ctx.tags ELSE ctx.default_tags,
                                     ctx.dest_path, ctx.fs)]
          /\ ctx' = CallerAfter(given, 2)
    /\ pc' = AfterCall
    /\ UNCHANGED <<config, uri, parts, template>>

GetWorktreeActions ==
    /\ pc \in {"ready", "again"}
    /\ \E given \in BOOLEAN :
          /\ result' = [op |-> "get_worktree_actions", given |-> given, before |-> Before,
                        value |-> get_worktree_actions(config.actions, ctx.source_path,
                                     IF given THEN ctx.tags ELSE ctx.default_tags,
                                     ctx.dest_path, ctx.fs)]
          /\ ctx' = CallerAfter(given, 2)
    /\ pc' = AfterCall
    /\ UNCHANGED <<config, uri, parts, template>>

\* resolve_source_path(config, uri) beside the matching
ResolveSourcePathBeside ==
    /\ pc \in {"ready", "again"}
    /\ result' = [op |-> "resolve_source_path", given |-> FALSE, before |-> Before,
                  value |-> resolve_source_path(config, uri)]
    /\ pc' = AfterCall
    /\ UNCHANGED <<config, uri, ctx, parts, template>>

NextMatcher ==
    \/ FindMatchingProjects
    \/ GetSourceActions
    \/ GetWorktreeActions
    \/ ResolveSourcePathBeside

SpecMatcher == InitMatcher /\ [][NextMatcher]_vars

\* A matcher function has returned or raised
MatcherCalled(op) == pc # "ready" /\ result.op = op

\* The tags the call was made with, and the predicate context they give
CallTags == IF result.given THEN ctx.tags ELSE ctx.default_tags
CallContext == _create_predicate_context(ctx.source_path, CallTags, ctx.dest_path, ctx.fs)

\* The i-th project rule's predicate in the context of the call: true, or
\* failing
ProjectMatches(i) ==
    LET r == evaluate_predicate(config.actions[i].predicate, CallContext.variables, CallContext.c)
    IN  r.t = "bool" /\ r.b
ProjectFails(i) ==
    IsRaise(evaluate_predicate(config.actions[i].predicate, CallContext.variables, CallContext.c))

\* A command whose template fails to evaluate, or whose expansion fails to
\* split
ExpansionFails(e) == IsRaise(e) \/ IsRaise(shlex_split(e.s))
ActionFails(a) ==
    a.action_type = "command" /\ ExpansionFails(evaluate_command_template(a.args[1], CallContext))

\* The actions the call is to process: for each rule in declaration order
\* whose predicate is true, its after_clone actions (get_source_actions) or
\* its after_add actions (get_worktree_actions), in declaration order
ActionsDue ==
    IF result.op = "find_matching_projects" THEN <<>>
    ELSE Concat([i \in 1..Len(config.actions) |->
                   IF ~ProjectMatches(i) THEN <<>>
                   ELSE IF result.op = "get_source_actions"
                   THEN config.actions[i].after_clone
                   ELSE config.actions[i].after_add])

C13_WitnessSplit ==
    /\ MatcherCalled("get_source_actions")
    /\ Len(config.actions) = 1
    /\ ProjectMatches(1)
    /\ config.actions[1].after_clone[2] = Command(Chars("echo 'x"))
    /\ IsRaise(result.value)
    /\ result.value.exc = "MatcherError"

\* A second source rule whose predicate calls path(): ResolverError naming
\* that rule
C13_WitnessResolver ==
    /\ MatcherCalled("resolve_source_path")
    /\ Len(config.sources) = 2
    /\ Fails(2)
    /\ IsRaise(result.value)
    /\ result.value.exc = "ResolverError"
    /\ result.value.rule = RuleName(2)

\* The actions the call is not to return: those of the rules whose
\* predicate is not true, and those of the other list of every rule
ActionsNotDue ==
    UNION { {r.after_clone[k] : k \in 1..Len(r.after_clone)} : r \in
              {config.actions[i] : i \in {j \in 1..Len(config.actions) :
                   ~ProjectMatches(j) \/ result.op = "get_worktree_actions"}} }
    \cup
    UNION { {r.after_add[k] : k \in 1..Len(r.after_add)} : r \in
              {config.actions[i] : i \in {j \in 1..Len(config.actions) :
                   ~ProjectMatches(j) \/ result.op = "get_source_actions"}} }

\* C18: get_source_actions returns exactly the after_clone actions, and
\* get_worktree_actions exactly the after_add actions, of every project
\* rule whose predicate is true (all matching rules, not only the first),
\* in rule declaration order and, within a rule, in action declaration
\* order; actions of non-matching rules and actions of the other list
\* never appear.
C18_ActionsOfAllMatchingRules ==
    (/\ pc # "ready"
     /\ result.op \in {"get_source_actions", "get_worktree_actions"}
     /\ result.value.t = "list")
    => LET got == result.value.l
       IN  /\ Len(got) = Len(ActionsDue)
           /\ \A k \in 1..Len(got) : got[k] = _process_action(ActionsDue[k], CallContext)
           /\ \A k \in 1..Len(got) : \A a \in ActionsNotDue :
                 got[k] # _process_action(a, CallContext)

\* Two matching rules, each with two after_clone actions: the four actions,
\* rule 1 before rule 2, and no after_add action
C18_Witness ==
    /\ MatcherCalled("get_source_actions")
    /\ Len(config.actions) = 2
    /\ ProjectMatches(1)
    /\ ProjectMatches(2)
    /\ result.value.t = "list"
    /\ Len(result.value.l) = 4
    /\ result.value.l[1].args[1] = Chars("claude")
    /\ result.value.l[2].action_type = "abs_copy"
    /\ result.value.l[2].args[2] = Chars("d1")
    /\ result.value.l[3].args[1] = Chars("claude2")
    /\ result.value.l[4].args[1] = Chars("e2")

\* A rule that does not match before one that does, get_worktree_actions:
\* the after_add actions of the second rule only
C18_WitnessWorktree ==
    /\ MatcherCalled("get_worktree_actions")
    /\ Len(config.actions) = 2
    /\ ~ProjectMatches(1)
    /\ ProjectMatches(2)
    /\ result.value.t = "list"
    /\ Len(result.value.l) = 2
    /\ result.value.l[1] = ActionTuple("rel_copy", <<Chars("f2")>>)
    /\ result.value.l[2].args[1] = Chars("w2")

\* The words the value of tag('prompt') gives in the call
PromptWords ==
    IF CallTags = Tags_review THEN <<Chars("/review")>>
    ELSE IF CallTags = Tags_spaced THEN <<Chars("re"), Chars("view")>>
    ELSE <<>>

\* The string dest_path() gives in the call
DestPathString ==
    IF IsNone(ctx.dest_path) THEN Chars("/home/u/d/repo") ELSE Chars("/home/u/w/repo/main")

\* What the actions of the i-th rule are to come out as: pairs of an action
\* and the pair (action_type, args) claimed for it
ClaimedTuples(i) ==
    { <<AfterClone(i, "command")[1],
        ActionTuple("command", <<ProgramOf(i), Chars("-p")>> \o PromptWords)>>,
      <<AfterClone(i, "command")[2],
        ActionTuple("command", <<<<"e", ToString(i)>>, Chars("a b"), Chars("(x)")>>)>>,
      <<AfterClone(i, "copy")[2],
        ActionTuple("abs_copy", <<Chars("tag('prompt')"), <<"d", ToString(i)>>>>)>>,
      <<AfterAdd(i)[1], ActionTuple("rel_copy", <<<<"f", ToString(i)>>>>)>>,
      <<AfterAdd(i)[2], ActionTuple("command", <<<<"w", ToString(i)>>, DestPathString>>)>> }

\* C19: for a command action the single command string is first expanded
\* by template evaluation against the rule's context and only then split by
\* POSIX shell-word rules into the argument vector, so claude -p
\* tag('prompt') with tags {prompt: /review} yields [claude, -p, /review];
\* the arguments of abs_copy and rel_copy actions are returned unchanged,
\* even when they contain function-call text.
C19_ExpandThenSplit ==
    (/\ pc # "ready"
     /\ result.op \in {"get_source_actions", "get_worktree_actions"}
     /\ result.value.t = "list")
    => /\ Len(result.value.l) = Len(ActionsDue)
       /\ \A k \in 1..Len(ActionsDue) :
             <<ActionsDue[k], result.value.l[k]>> \in
                 UNION {ClaimedTuples(i) : i \in 1..Len(config.actions)}

\* claude -p tag('prompt') with tags {prompt: /review}, followed by a copy
\* whose first argument is tag('prompt')
C19_Witness ==
    /\ MatcherCalled("get_source_actions")
    /\ result.given
    /\ ctx.tags = Tags_review
    /\ Len(config.actions) = 1
    /\ config.actions[1].after_clone[1] = Command(Chars("claude -p tag('prompt')"))
    /\ result.value.t = "list"
    /\ Len(result.value.l) = 2
    /\ result.value.l[1] =
          ActionTuple("command", <<Chars("claude"), Chars("-p"), Chars("/review")>>)
    /\ result.value.l[2] =
          ActionTuple("abs_copy", <<Chars("tag('prompt')"), Chars("d1")>>)

\* A tag value of two words gives two arguments: the split follows the
\* expansion
C19_WitnessSpaced ==
    /\ MatcherCalled("get_source_actions")
    /\ result.given
    /\ ctx.tags = Tags_spaced
    /\ result.value.t = "list"
    /\ Len(result.value.l) >= 2
    /\ result.value.l[1].args = <<Chars("claude"), Chars("-p"), Chars("re"), Chars("view")>>
    /\ result.value.l[2].args = <<Chars("e1"), Chars("a b"), Chars("(x)")>>

\* What a matcher function gives when it is handed an empty tags mapping
WithoutTags(op) ==
    IF op = "find_matching_projects"
    THEN find_matching_projects(config.actions, ctx.source_path, NoTags, ctx.dest_path, ctx.fs)
    ELSE IF op = "get_source_actions"
    THEN get_source_actions(config.actions, ctx.source_path, NoTags, ctx.dest_path, ctx.fs)
    ELSE get_worktree_actions(config.actions, ctx.source_path, NoTags, ctx.dest_path, ctx.fs)

C20_WitnessError ==
    /\ pc = "done"
    /\ result.op = "get_source_actions"
    /\ result.before = "given"
    /\ IsRaise(result.value)
    /\ ctx \in MatcherContexts

----------------------------------------------------------------------------
(* utils/uri.py: parse_uri, and urllib.parse.urlparse as it calls it *)

\* s.rfind(p): the last position p occurs at, 0 when there is none
RFind(s, p) ==
    LET at == {i \in 1..(Len(s) - Len(p) + 1) : SubSeq(s, i, i + Len(p) - 1) = p}
    IN  IF at = {} THEN 0 ELSE CHOOSE i \in at : \A j \in at : i >= j

\* s.endswith(p)
EndsWith(s, p) == Len(s) >= Len(p) /\ SubSeq(s, Len(s) - Len(p) + 1, Len(s)) = p

UpperCase == Chars("ABCDEFGHIJKLMNOPQRSTUVWXYZ")
LowerCase == Chars("abcdefghijklmnopqrstuvwxyz")

\* s.lower()
Lower(s) ==
    [i \in 1..Len(s) |->
        IF \E k \in 1..Len(UpperCase) : UpperCase[k] = s[i]
        THEN LowerCase[CHOOSE k \in 1..Len(UpperCase) : UpperCase[k] = s[i]]
        ELSE s[i]]

RECURSIVE IntStr(_)
\* str(n) for n >= 0
IntStr(n) ==
    IF n < 10 THEN <<ToString(n)>> ELSE IntStr(n \div 10) \o <<ToString(n % 10)>>

\* SCP_PATTERN.match(uri), ^(?P<user>[^@]+)@(?P<host>[^:]+):(?P<path>.+)$ :
\* user runs to the first @, host from there to the next colon, path is the
\* rest, and none of the three is empty
SCP_PATTERN(u) ==
    LET at == Find(u, <<"@">>)
        rest == From(u, at + 1)
        colon == Find(rest, <<":">>)
    IN  IF at > 1 /\ colon > 1 /\ colon < Len(rest)
        THEN [matched |-> TRUE, host |-> SubSeq(rest, 1, colon - 1),
              path |-> From(rest, colon + 1)]
        ELSE [matched |-> FALSE]

RECURSIVE StripSlashes(_)
\* path.strip("/")
StripSlashes(path) ==
    IF path # <<>> /\ Head(path) = "/" THEN StripSlashes(Tail(path))
    ELSE IF path # <<>> /\ path[Len(path)] = "/"
    THEN StripSlashes(SubSeq(path, 1, Len(path) - 1))
    ELSE path

\* Mutation of StripGitSuffix: the suffix is stripped from every segment
StripGitSuffix_every(segments) ==
    [i \in 1..Len(segments) |->
        IF EndsWith(segments[i], Chars(".git"))
        THEN SubSeq(segments[i], 1, Len(segments[i]) - 4)
        ELSE segments[i]]

\* _extract_path_segments from the segment list on: .git is removed from
\* the last segment when it ends with it
StripGitSuffix(segments) ==
    IF segments # <<>> /\ EndsWith(segments[Len(segments)], Chars(".git"))
    THEN [segments EXCEPT ![Len(segments)] = SubSeq(@, 1, Len(@) - 4)]
    ELSE segments

IsNonEmpty(seg) == seg # <<>>

_extract_path_segments(path) ==
    StripGitSuffix(SelectSeq(SplitPath(StripSlashes(path)), IsNonEmpty))

\* The characters of a URL scheme (urllib.parse.scheme_chars)
IsSchemeChar(ch) == ch \in Letters \cup Digits \cup {"+", "-", "."}

\* The position a path, query or fragment starts at in url, from the 1-based
\* position start on (urllib.parse._splitnetloc); Len(url) + 1 when none does
NetlocEnd(url, start) ==
    LET at == {i \in start..Len(url) : url[i] \in {"/", "?", "#"}}
    IN  IF at = {} THEN Len(url) + 1 ELSE CHOOSE i \in at : \A j \in at : i <= j

\* url up to the first occurrence of ch
Before_(url, ch) ==
    LET i == Find(url, <<ch>>) IN IF i = 0 THEN url ELSE SubSeq(url, 1, i - 1)

\* urlsplit from the netloc on, scheme already taken off
SplitNetloc(scheme, url) ==
    IF StartsWith(url, Chars("//"))
    THEN [scheme |-> scheme,
          netloc |-> SubSeq(url, 3, NetlocEnd(url, 3) - 1),
          path |-> Before_(Before_(From(url, NetlocEnd(url, 3)), "#"), "?")]
    ELSE [scheme |-> scheme, netloc |-> S_empty,
          path |-> Before_(Before_(url, "#"), "?")]

\* urlparse(url), for a url without brackets, control characters or
\* parameters: the scheme is the text before the first colon when it starts
\* with a letter and is made of scheme characters, lowered
urlparse(url) ==
    LET i == Find(url, <<":">>)
    IN  IF /\ i > 1
           /\ url[1] \in Letters
           /\ \A k \in 1..(i - 1) : IsSchemeChar(url[k])
        THEN SplitNetloc(Lower(SubSeq(url, 1, i - 1)), From(url, i + 1))
        ELSE SplitNetloc(S_empty, url)

\* The host and port part of the netloc: what follows the last @
HostInfo(parsed) == From(parsed.netloc, RFind(parsed.netloc, <<"@">>) + 1)

\* parsed.hostname: None (here the empty string) or the lowered host name
hostname(parsed) == Lower(Before_(HostInfo(parsed), ":"))

\* The text of the port in the netloc, empty when there is none
PortText(parsed) ==
    LET i == Find(HostInfo(parsed), <<":">>)
    IN  IF i = 0 THEN S_empty ELSE From(HostInfo(parsed), i + 1)

\* parsed.port: None, the number, or ValueError for a port that is not a
\* number or is out of range
port(parsed) ==
    IF PortText(parsed) = S_empty THEN NoneV
    ELSE IF \E k \in 1..Len(PortText(parsed)) : PortText(parsed)[k] \notin Digits
    THEN Raise("ValueError")
    ELSE IF DigitsVal(PortText(parsed)) > 65535 THEN Raise("ValueError")
    ELSE IntV(DigitsVal(PortText(parsed)))

\* parse_uri from the parsed URL on
ParseUrl(u, parsed) ==
    IF parsed.scheme = S_empty THEN Raise("ValueError")
    ELSE IF parsed.netloc = S_empty /\ parsed.scheme # Chars("file") THEN Raise("ValueError")
    ELSE IF IsRaise(port(parsed)) THEN Raise("ValueError")
    ELSE IF _extract_path_segments(parsed.path) = <<>> /\ Lower(parsed.scheme) # Chars("file")
    THEN Raise("ValueError")
    ELSE ParsedURI(u, Lower(parsed.scheme), hostname(parsed),
                   IF IsNone(port(parsed)) \/ port(parsed).n = 0 THEN S_empty
                   ELSE IntStr(port(parsed).n),
                   _extract_path_segments(parsed.path))

\* parse_uri from the stripped string on
ParseStripped(u, scp_match) ==
    IF u = S_empty THEN Raise("ValueError")
    ELSE IF scp_match.matched
    THEN ParsedURI(u, Chars("ssh"), scp_match.host, S_empty,
                   _extract_path_segments(scp_match.path))
    ELSE ParseUrl(u, urlparse(u))

parse_uri(u) == ParseStripped(Strip(u), SCP_PATTERN(Strip(u)))

----------------------------------------------------------------------------
(* Parsing of URI strings *)

\* What the URI strings are written from
Schemes == {Chars("https"), Chars("ssh"), Chars("file")}
Users == {S_empty, Chars("git")}
Hosts == {Chars("myhost"), Chars("GitHub.com")}
Ports == {S_empty, Chars("3000")}
Segments ==
    {Chars("org"), Chars("b.git"), Chars("b.git.git"), Chars(".git"), Chars("b.GIT"), S_empty}

RECURSIVE JoinSlash(_)
\* "/".join(segs)
JoinSlash(segs) ==
    IF segs = <<>> THEN <<>>
    ELSE IF Len(segs) = 1 THEN segs[1]
    ELSE Head(segs) \o <<"/">> \o JoinSlash(Tail(segs))

\* The written forms: user@host:path, scheme://[user@]host[:port][/path],
\* and the strings without anything in them
UriForms ==
    {[form |-> "scp", scheme |-> S_empty, user |-> us, host |-> h, port |-> S_empty,
      segs |-> sg, lead |-> l, trail |-> FALSE] :
        us \in Users, h \in Hosts, sg \in SeqsUpTo(Segments, MaxSegments), l \in BOOLEAN}
    \cup
    {[form |-> "url", scheme |-> sc, user |-> us, host |-> h, port |-> po,
      segs |-> sg, lead |-> TRUE, trail |-> tr] :
        sc \in Schemes, us \in Users, h \in Hosts \cup {S_empty}, po \in Ports,
        sg \in SeqsUpTo(Segments, MaxSegments), tr \in BOOLEAN}
    \cup
    {[form |-> "url", scheme |-> sc, user |-> S_empty, host |-> h, port |-> S_empty,
      segs |-> <<>>, lead |-> FALSE, trail |-> FALSE] :
        sc \in Schemes, h \in Hosts \cup {S_empty}}
    \cup
    {[form |-> "blank", scheme |-> S_empty, user |-> S_empty, host |-> h, port |-> S_empty,
      segs |-> <<>>, lead |-> FALSE, trail |-> FALSE] : h \in {S_empty, Chars(" ")}}

PathString(f) ==
    (IF f.lead THEN <<"/">> ELSE <<>>) \o JoinSlash(f.segs)
        \o (IF f.trail THEN <<"/">> ELSE <<>>)

UriString(f) ==
    IF f.form = "scp" THEN f.user \o <<"@">> \o f.host \o <<":">> \o PathString(f)
    ELSE IF f.form = "url"
    THEN f.scheme \o Chars("://")
            \o (IF f.user = S_empty THEN <<>> ELSE f.user \o <<"@">>)
            \o f.host
            \o (IF f.port = S_empty THEN <<>> ELSE <<":">> \o f.port)
            \o PathString(f)
    ELSE f.host

InitUri ==
    /\ config = NoConfig
    /\ uri = NoneV
    /\ ctx = NoContext
    /\ parts \in UriForms
    /\ template = UriString(parts)
    /\ pc = "ready"
    /\ result = NoResult

\* parse_uri(args.uri), as the clone command calls it: the parsed URI is
\* what the command goes on with
ParseUri ==
    /\ pc = "ready"
    /\ result' = [op |-> "parse_uri", value |-> parse_uri(template)]
    /\ uri' = IF IsRaise(result'.value) THEN uri ELSE result'.value
    /\ pc' = "done"
    /\ UNCHANGED <<config, ctx, parts, template>>

NextUri == ParseUri

SpecUri == InitUri /\ [][NextUri]_vars

\* parse_uri has returned a ParsedURI
Parsed == pc = "done" /\ result.op = "parse_uri" /\ ~IsRaise(result.value)

\* C15: every ParsedURI returned by parse_uri, through the SCP-style branch
\* as well as through the URL branch, has a non-empty path_segments list
\* unless its protocol is file, and no segment is the empty string or
\* contains /; an input that would give an empty segment list for a non-file
\* protocol is rejected with an invalid-URI error instead.
C15_SegmentsNonEmpty ==
    Parsed =>
        /\ result.value.path_segments # <<>> \/ result.value.protocol = Chars("file")
        /\ \A k \in 1..Len(result.value.path_segments) :
              /\ result.value.path_segments[k] # S_empty
              /\ ~Contains(result.value.path_segments[k], <<"/">>)

\* The input is written with a scheme
HasScheme == parts.form = "url"

\* C16: the SCP-style branch of parse_uri applies only to strings of the
\* form user@host:path that have no scheme; a string with a scheme,
\* including scheme://user@host:port/path (e.g.
\* ssh://git@myhost:3000/org/project.git), is parsed as a standard URL,
\* giving protocol equal to the scheme, host equal to the host name, port
\* equal to the given port, and path segments that do not contain the port.
C16_SchemeParsedAsUrl ==
    (Parsed /\ HasScheme) =>
        /\ result.value.protocol = parts.scheme
        /\ result.value.host = Lower(parts.host)
        /\ result.value.port = parts.port
        /\ \A k \in 1..Len(result.value.path_segments) :
              parts.port = S_empty \/ result.value.path_segments[k] # parts.port

\* The segment without one trailing .git
WithoutGitSuffix(seg) ==
    IF \E k \in 0..Len(seg) : seg = SubSeq(seg, 1, k) \o Chars(".git")
    THEN SubSeq(seg, 1, Len(seg) - 4)
    ELSE seg

\* The segments the input was written with, the empty ones left out
WrittenSegments == SelectSeq(parts.segs, IsNonEmpty)

\* The last n segments of the result
LastSegments(n) ==
    SubSeq(result.value.path_segments,
           Len(result.value.path_segments) - n + 1, Len(result.value.path_segments))

\* C17: parse_uri strips the literal, case-sensitive suffix .git at most
\* once and only from the last path segment: a last segment b.git.git
\* becomes b.git, a last segment without the suffix is unchanged, and a
\* non-last segment ending in .git is left unchanged.
C17_GitSuffixStrippedOnce ==
    (Parsed /\ WrittenSegments # <<>>) =>
        /\ Len(result.value.path_segments) >= Len(WrittenSegments)
        /\ LastSegments(Len(WrittenSegments)) =
              [WrittenSegments EXCEPT ![Len(WrittenSegments)] = WithoutGitSuffix(@)]

\* https://myhost/b.git/b.git.git gives the segments b.git and b.git
C17_Witness ==
    /\ Parsed
    /\ template = Chars("https://myhost/b.git/b.git.git")
    /\ result.value.path_segments = <<Chars("b.git"), Chars("b.git")>>

\* The suffix is case-sensitive: b.GIT stays
C17_WitnessCase ==
    /\ Parsed
    /\ template = Chars("git@myhost:org/b.GIT")
    /\ result.value.path_segments = <<Chars("org"), Chars("b.GIT")>>

----------------------------------------------------------------------------
(* cli/main.py, cli/commands/clone.py and cli/commands/add.py.  The       *)
(* commands call resolve_source_path(config, uri, tags) and               *)
(* resolve_worktree_path(config, uri, branch, tags) and read               *)
(* config.projects: the resolver that takes tags and the projects field    *)
(* are described in the specification (4.4, 5) and modelled from it.       *)

RECURSIVE MatchSourceRuleFrom(_, _, _)
\* The first source rule, from the i-th on, whose predicate is true against
\* the URI and tag context; a TemplateError becomes a ResolverError
MatchSourceRuleFrom(rules, i, c) ==
    IF i > Len(rules) THEN NoneV
    ELSE LET r == evaluate_predicate(rules[i].predicate, create_function_registry(c), c)
         IN  IF IsTemplateError(r)
             THEN [t |-> "raise", exc |-> "ResolverError", rule |-> rules[i].name]
             ELSE IF r.b THEN rules[i]
             ELSE MatchSourceRuleFrom(rules, i + 1, c)

\* The winning template expanded, home-expanded and resolved
ResolveInContext(tpl, c, rule) ==
    IF IsRaise(rule) THEN rule ELSE ToPath(evaluate_template(tpl, c))

resolveSourcePath(cfg, u, tags) ==
    ResolveInContext(
        SourcesTemplate(cfg, MatchSourceRuleFrom(cfg.sources, 1, TemplateContext(u, NoneV, tags))),
        TemplateContext(u, NoneV, tags),
        MatchSourceRuleFrom(cfg.sources, 1, TemplateContext(u, NoneV, tags)))

resolveWorktreePath(cfg, u, branch, tags) ==
    ResolveInContext(
        WorktreesTemplate(cfg, MatchSourceRuleFrom(cfg.sources, 1, TemplateContext(u, branch, tags))),
        TemplateContext(u, branch, tags),
        MatchSourceRuleFrom(cfg.sources, 1, TemplateContext(u, branch, tags)))

\* config.projects: the project rules of the config
Projects(cfg) == cfg.actions

\* How a command ends: the exit code it returns, and the exception that
\* was raised in it on the way (None when there was none)
Run(exit, raised) == [t |-> "run", exit |-> exit, raised |-> raised]

\* What the commands find around them: the config file (ok, missing,
\* invalid), the repository the add command is run in (ok, not_git,
\* no_remote, branch_missing), git itself (ok, fails), whether the
\* destination exists already, and the files of the checkout
Environment(config_state, repo, git, exists) ==
    [config_state |-> config_state, repo |-> repo, git |-> git, exists |-> exists,
     fs |-> FileSystem({Chars("package.json")}, {Chars("src")}, Cwd)]

\* Mutation of CommandActions: an error of the project rules ends the
\* command with exit code 1
CommandActions_exit(actions) ==
    IF IsRaise(actions) THEN Run(1, actions) ELSE Run(0, NoneV)

\* The try statement around get_source_actions and execute_actions
\* (get_worktree_actions in add): MatcherError and ActionError are printed
\* and the command goes on to print the path and return 0; any other
\* exception goes through
CommandActions(actions) ==
    IF IsRaise(actions) /\ actions.exc = "MatcherError" THEN Run(0, actions)
    ELSE IF IsRaise(actions) THEN actions
    ELSE Run(0, NoneV)

\* run_clone from the resolved source path on
CloneAt(cfg, source_path, tags, env) ==
    IF env.exists THEN Run(1, NoneV)
    ELSE IF env.git = "fails" THEN Run(1, NoneV)
    ELSE IF Projects(cfg) # <<>>
    THEN CommandActions(get_source_actions(Projects(cfg), source_path, tags, NoneV, env.fs))
    ELSE Run(0, NoneV)

\* except ResolverError: return 2
CloneResolved(cfg, source_path, tags, env) ==
    IF IsRaise(source_path) /\ source_path.exc = "ResolverError" THEN Run(2, source_path)
    ELSE IF IsRaise(source_path) THEN source_path
    ELSE CloneAt(cfg, source_path, tags, env)

\* run_clone from the parsed URI on
CloneParsed(u, cfg, tags, env) ==
    IF IsRaise(u) THEN Run(1, NoneV)
    ELSE IF env.config_state # "ok" THEN Run(2, NoneV)
    ELSE CloneResolved(cfg, resolveSourcePath(cfg, u, tags), tags, env)

run_clone(uri_str, cfg, tags, env) == CloneParsed(parse_uri(uri_str), cfg, tags, env)

\* run_add from the resolved worktree path on
AddAt(cfg, source_path, worktree_path, tags, env) ==
    IF env.exists \/ env.git = "fails" THEN Run(1, NoneV)
    ELSE IF Projects(cfg) # <<>>
    THEN CommandActions(get_worktree_actions(Projects(cfg), source_path, tags,
                                             worktree_path, env.fs))
    ELSE Run(0, NoneV)

AddResolved(cfg, source_path, worktree_path, tags, env) ==
    IF IsRaise(worktree_path) /\ worktree_path.exc = "ResolverError" THEN Run(2, worktree_path)
    ELSE IF IsRaise(worktree_path) THEN worktree_path
    ELSE AddAt(cfg, source_path, worktree_path, tags, env)

\* run_add from the parsed remote URI on
AddParsed(u, cfg, branch, tags, env) ==
    IF IsRaise(u) THEN Run(1, NoneV)
    ELSE IF env.config_state # "ok" THEN Run(2, NoneV)
    ELSE IF env.repo = "branch_missing" THEN Run(1, NoneV)
    ELSE AddResolved(cfg, PathV("/home/u/d/repo"), resolveWorktreePath(cfg, u, branch, tags),
                     tags, env)

\* remote_uri is the URI of the repository's origin
run_add(remote_uri, cfg, branch, tags, env) ==
    IF env.repo \in {"not_git", "no_remote"} THEN Run(1, NoneV)
    ELSE AddParsed(parse_uri(remote_uri), cfg, branch, tags, env)

\* main: an exception that leaves the command is printed and gives 1
main(outcome) == IF IsRaise(outcome) THEN Run(1, outcome) ELSE outcome

----------------------------------------------------------------------------
(* The clone and add commands *)

\* Source rules of the commands' configs: none, one that matches, one whose
\* predicate is not a boolean, one that reads a tag
CliSourceConfigs ==
    { Config(DefaultSources, DefaultWorktrees, <<>>) }
    \cup { Config(DefaultSources, DefaultWorktrees,
                  << SourceRule(RuleName(1), RulePredicates[k],
                                StrV(RuleSources(1)), StrV(RuleWorktrees(1))) >>) :
             k \in {1, 5, 7} }

\* A repository, a file URI without path segments, and a string that is
\* no URI
UriStrings == {Chars("https://github.com/user/repo.git"), Chars("file:///"), Chars("repo")}

Environments ==
    { Environment("ok", "ok", "ok", FALSE), Environment("missing", "ok", "ok", FALSE),
      Environment("invalid", "ok", "ok", FALSE), Environment("ok", "not_git", "ok", FALSE),
      Environment("ok", "no_remote", "ok", FALSE),
      Environment("ok", "branch_missing", "ok", FALSE),
      Environment("ok", "ok", "fails", FALSE), Environment("ok", "ok", "ok", TRUE) }

InitCli ==
    /\ \/ /\ config \in { ConfigWithActions(c, rs) :
                            c \in CliSourceConfigs, rs \in ProjectRulesOf(0) \cup ProjectRulesOf(1) }
          /\ template \in UriStrings
          /\ parts = Environment("ok", "ok", "ok", FALSE)
       \/ /\ config \in { ConfigWithActions(Config(DefaultSources, DefaultWorktrees, <<>>), rs) :
                            rs \in UNION {ProjectRulesOf(n) : n \in 0..MaxRules} }
          /\ template = Chars("https://github.com/user/repo.git")
          /\ parts \in Environments
    /\ ctx \in { [tags |-> tg, branch |-> StrV(Chars("main"))] : tg \in {NoTags, Tags_review} }
    /\ uri = NoneV
    /\ pc = "ready"
    /\ result = NoResult

\* gww clone <uri> [--tag ...]
RunClone ==
    /\ pc = "ready"
    /\ result' = [op |-> "clone", run |-> main(run_clone(template, config, ctx.tags, parts))]
    /\ pc' = "done"
    /\ UNCHANGED <<config, uri, ctx, parts, template>>

\* gww add <branch> [--tag ...]
RunAdd ==
    /\ pc = "ready"
    /\ result' = [op |-> "add",
                  run |-> main(run_add(template, config, ctx.branch, ctx.tags, parts))]
    /\ pc' = "done"
    /\ UNCHANGED <<config, uri, ctx, parts, template>>

NextCli == RunClone \/ RunAdd

SpecCli == InitCli /\ [][NextCli]_vars

\* The exception raised in the command was raised for an error of the
\* evaluator: ResolverError and MatcherError are raised for nothing else
EvaluatorError(run) == IsRaise(run.raised) /\ run.raised.exc \in {"ResolverError", "MatcherError"}

C14_WitnessResolver ==
    /\ pc = "done"
    /\ result.op = "add"
    /\ Len(config.sources) = 1
    /\ config.sources[1].predicate = Str("x")
    /\ EvaluatorError(result.run)
    /\ result.run.raised.exc = "ResolverError"
    /\ result.run.exit = 2

\* clone of file:/// with the default template ~/d/path(-1): the path
\* template fails, exit code 2
C14_WitnessTemplate ==
    /\ pc = "done"
    /\ result.op = "clone"
    /\ template = Chars("file:///")
    /\ config.sources = <<>>
    /\ EvaluatorError(result.run)
    /\ result.run.exit = 2

----------------------------------------------------------------------------
(* The worktrees of one repository *)

\* Worktree: the path and the branch of an entry of git worktree list;
\* dirty is whether git status --porcelain prints anything there
Worktree(path, branch, dirty) ==
    [t |-> "Worktree", path |-> path, branch |-> branch, dirty |-> dirty]

\* What the git layer reads and changes: the local branches with their
\* commits, the branches of origin, the worktree list (the main working
\* tree first) and the directories that exist
Repository(heads, remotes, worktrees, dirs) ==
    [heads |-> heads, remotes |-> remotes, worktrees |-> worktrees, dirs |-> dirs]

\* The repository after a call, and what the call returned or raised
Done(repo, value) == [repo |-> repo, value |-> value]

\* GitCommandError(message, returncode, stderr)
GitCommandError(stderr) == [t |-> "raise", exc |-> "GitCommandError", stderr |-> stderr]

\* The directories above a path
Ancestors(path) == { SubSeq(path, 1, i - 1) : i \in {j \in 2..Len(path) : path[j] = "/"} }

\* list_worktrees: the entries of git worktree list --porcelain
list_worktrees(repo) == repo.worktrees

\* The positions of the entries a predicate on branch or path selects
EntriesWithBranch(repo, branch) ==
    {i \in 1..Len(list_worktrees(repo)) : list_worktrees(repo)[i].branch = branch}

EntriesWithPath(repo, path) ==
    {i \in 1..Len(list_worktrees(repo)) : list_worktrees(repo)[i].path = path}

First(S) == CHOOSE i \in S : \A j \in S : i <= j

find_worktree_by_branch(repo, branch) ==
    IF EntriesWithBranch(repo, branch) = {} THEN NoneV
    ELSE list_worktrees(repo)[First(EntriesWithBranch(repo, branch))]

find_worktree_by_path(repo, path) ==
    IF EntriesWithPath(repo, path) = {} THEN NoneV
    ELSE list_worktrees(repo)[First(EntriesWithPath(repo, path))]

\* is_worktree_clean: git status --porcelain prints nothing
is_worktree_clean(repo, path) == ~find_worktree_by_path(repo, path).dirty

\* git rev-parse HEAD in a working tree
get_current_commit(repo, path) == repo.heads[find_worktree_by_path(repo, path).branch]

\* The repository with one more checkout
WithWorktree(repo, path, branch, heads) ==
    Repository(heads, repo.remotes,
               Append(repo.worktrees, Worktree(path, branch, FALSE)),
               repo.dirs \cup {path})

\* git worktree add <path> <branch>: refused for a path that exists and for
\* a branch that is checked out; a branch that only origin has is created
\* to track it
GitWorktreeAdd(repo, path, branch) ==
    IF path \in repo.dirs THEN Done(repo, GitCommandError("already exists"))
    ELSE IF branch \in DOMAIN repo.heads
    THEN IF EntriesWithBranch(repo, branch) # {}
         THEN Done(repo, GitCommandError("is already checked out"))
         ELSE Done(WithWorktree(repo, path, branch, repo.heads), NoneV)
    ELSE IF branch \in DOMAIN repo.remotes
    THEN Done(WithWorktree(repo, path, branch,
                           repo.heads @@ (branch :> repo.remotes[branch])), NoneV)
    ELSE Done(repo, GitCommandError("invalid reference"))

\* git worktree add <path> -b <branch> [<base>]: the branch is created
\* first, from base_commit or from HEAD of the main working tree
GitWorktreeAddNew(repo, path, branch, base_commit) ==
    LET start == IF IsNone(base_commit) THEN repo.heads[repo.worktrees[1].branch]
                 ELSE base_commit.s
        heads == repo.heads @@ (branch :> start)
    IN  IF branch \in DOMAIN repo.heads
        THEN Done(repo, GitCommandError("already exists"))
        ELSE IF path \in repo.dirs
        THEN Done(Repository(heads, repo.remotes, repo.worktrees, repo.dirs),
                  GitCommandError("already exists"))
        ELSE Done(WithWorktree(repo, path, branch, heads), NoneV)

\* worktree_path.parent.mkdir(parents=True, exist_ok=True)
MkdirParents(repo, path) ==
    Repository(repo.heads, repo.remotes, repo.worktrees, repo.dirs \cup Ancestors(path))

\* except GitCommandError: "already exists" in the message becomes
\* WorktreeExistsError, anything else is raised again
AddHandled(done, path) ==
    IF IsRaise(done.value) /\ done.value.stderr = "already exists"
    THEN Done(done.repo, Raise("WorktreeExistsError"))
    ELSE IF IsRaise(done.value) THEN done
    ELSE Done(done.repo, [t |-> "Path", p |-> path])

\* Mutation of add_worktree: the worktree list is not searched for the
\* branch before git is run
add_worktree_unchecked(repo, path, branch, new_branch, base_commit) ==
    IF new_branch
    THEN AddHandled(GitWorktreeAddNew(MkdirParents(repo, path), path, branch, base_commit),
                    path)
    ELSE AddHandled(GitWorktreeAdd(MkdirParents(repo, path), path, branch), path)

add_worktree(repo, path, branch, new_branch, base_commit) ==
    IF ~IsNone(find_worktree_by_branch(repo, branch))
    THEN Done(repo, Raise("WorktreeExistsError"))
    ELSE IF new_branch
    THEN AddHandled(GitWorktreeAddNew(MkdirParents(repo, path), path, branch, base_commit),
                    path)
    ELSE AddHandled(GitWorktreeAdd(MkdirParents(repo, path), path, branch), path)

\* The worktree list without the entries of a path
RECURSIVE WithoutPath(_, _)
WithoutPath(worktrees, path) ==
    IF worktrees = <<>> THEN <<>>
    ELSE IF Head(worktrees).path = path THEN WithoutPath(Tail(worktrees), path)
    ELSE <<Head(worktrees)>> \o WithoutPath(Tail(worktrees), path)

\* git worktree remove [--force] <path>: refused for the main working tree
\* and, without --force, for a working tree with changes; the directory
\* goes with the entry
GitWorktreeRemove(repo, path, force) ==
    IF repo.worktrees[1].path = path
    THEN Done(repo, GitCommandError("is a main working tree"))
    ELSE IF find_worktree_by_path(repo, path).dirty /\ ~force
    THEN Done(repo, GitCommandError("contains modified or untracked files"))
    ELSE Done(Repository(repo.heads, repo.remotes, WithoutPath(repo.worktrees, path),
                         repo.dirs \ {path}), NoneV)

\* Mutation of remove_worktree: the working tree is not examined before
\* git is run
remove_worktree_unexamined(repo, path, force) ==
    IF IsNone(find_worktree_by_path(repo, path))
    THEN Done(repo, Raise("WorktreeNotFoundError"))
    ELSE GitWorktreeRemove(repo, path, force)

remove_worktree(repo, path, force) ==
    IF IsNone(find_worktree_by_path(repo, path))
    THEN Done(repo, Raise("WorktreeNotFoundError"))
    ELSE IF ~force /\ ~is_worktree_clean(repo, path)
    THEN Done(repo, Raise("WorktreeDirtyError"))
    ELSE GitWorktreeRemove(repo, path, force)

\* The exit code of a command that ran in a repository
Exit(repo, code) == Done(repo, Run(code, NoneV))

\* try: remove_worktree(...) except WorktreeNotFoundError, WorktreeDirtyError,
\* GitCommandError: return 1
RemoveAt(done) ==
    IF IsRaise(done.value) THEN Done(done.repo, Run(1, done.value))
    ELSE Exit(done.repo, 0)

\* detect_repository(path).is_worktree: the root of the checkout has a .git
\* file, which the main working tree has not
IsLinked(repo, path) ==
    /\ ~IsNone(find_worktree_by_path(repo, path))
    /\ repo.worktrees[1].path # path

\* run_remove: an absolute path names the worktree itself, anything else is
\* a branch looked up from the checkout the command runs in (cwd is "" outside
\* of every checkout)
run_remove(repo, cwd, branch_or_path, force) ==
    IF Contains(branch_or_path, <<"/">>) /\ Head(branch_or_path) = "/"
    THEN IF ~IsLinked(repo, branch_or_path) THEN Exit(repo, 1)
         ELSE RemoveAt(remove_worktree(repo, branch_or_path, force))
    ELSE IF IsNone(find_worktree_by_path(repo, cwd)) THEN Exit(repo, 1)
    ELSE IF IsNone(find_worktree_by_branch(repo, branch_or_path)) THEN Exit(repo, 1)
    ELSE RemoveAt(remove_worktree(repo, find_worktree_by_branch(repo, branch_or_path).path,
                                  force))

\* branch_exists: refs/heads/<branch> or refs/remotes/origin/<branch>
branch_exists(repo, branch) ==
    branch \in DOMAIN repo.heads \/ branch \in DOMAIN repo.remotes

\* create_branch: git branch <branch> [<start_point>] in the source
\* repository
create_branch(repo, branch, start_point) ==
    IF branch \in DOMAIN repo.heads THEN Done(repo, Raise("BranchExistsError"))
    ELSE Done(Repository(repo.heads @@
                           (branch :> IF IsNone(start_point)
                                      THEN repo.heads[repo.worktrees[1].branch]
                                      ELSE start_point.s),
                         repo.remotes, repo.worktrees, repo.dirs), NoneV)

\* run_add from the added worktree on: the project actions
AddedIn(added, cfg, tags, env) ==
    IF IsRaise(added.value) THEN Done(added.repo, Run(1, added.value))
    ELSE IF Projects(cfg) # <<>>
    THEN Done(added.repo,
              CommandActions(get_worktree_actions(Projects(cfg),
                                                  [t |-> "Path", p |-> added.repo.worktrees[1].path],
                                                  tags, added.value, env.fs)))
    ELSE Exit(added.repo, 0)

\* run_add from the resolved worktree path on
AddResolvedIn(repo, worktree_path, branch, cfg, tags, env) ==
    IF IsRaise(worktree_path) /\ worktree_path.exc = "ResolverError"
    THEN Done(repo, Run(2, worktree_path))
    ELSE IF IsRaise(worktree_path) THEN Done(repo, worktree_path)
    ELSE AddedIn(add_worktree(repo, worktree_path.p, branch, FALSE, NoneV), cfg, tags, env)

\* run_add from the branch that exists on
AddBranchIn(created, u, branch, cfg, tags, env) ==
    IF IsRaise(created.value) THEN Done(created.repo, Run(1, created.value))
    ELSE AddResolvedIn(created.repo, resolve_worktree_path(cfg, u, StrV(branch), tags),
                       branch, cfg, tags, env)

\* run_add from the parsed remote URI on
AddParsedIn(repo, cwd, u, branch, create_branch_flag, cfg, tags, env) ==
    IF IsRaise(u) THEN Exit(repo, 1)
    ELSE IF env.config_state # "ok" THEN Exit(repo, 2)
    ELSE IF branch_exists(repo, branch)
    THEN AddBranchIn(Done(repo, NoneV), u, branch, cfg, tags, env)
    ELSE IF create_branch_flag
    THEN AddBranchIn(create_branch(repo, branch, StrV(get_current_commit(repo, cwd))),
                     u, branch, cfg, tags, env)
    ELSE Exit(repo, 1)

\* run_add with the repository it changes: cwd is the checkout the command
\* runs in ("" outside of every checkout), u what parse_uri made of the URI
\* of origin
run_add_in(repo, cwd, u, branch, create_branch_flag, cfg, tags, env) ==
    IF IsNone(find_worktree_by_path(repo, cwd)) THEN Exit(repo, 1)
    ELSE AddParsedIn(repo, cwd, u, branch, create_branch_flag, cfg, tags, env)

\* main around a command that changes the repository
MainIn(done) == Done(done.repo, main(done.value))

----------------------------------------------------------------------------
(* Adding and removing worktrees *)

\* The branches the commands are given: checked out in the main working
\* tree, known to origin, and unknown
BranchNames == {Chars("main"), Chars("feat"), Chars("new")}

\* The main working tree, the paths worktrees are put at, and a directory
\* that is there and is no checkout
MainTree == Chars("/home/u/d/repo")
Kept == Chars("/home/u/w/kept")
WorktreePaths == {Chars("/home/u/w/repo/feat"), Chars("/home/u/x/new"), Kept}

\* A clone of origin with main checked out; feat is a local branch or is
\* only on origin
InitWorktree ==
    /\ \E local \in {{Chars("main")}, {Chars("main"), Chars("feat")}} :
          ctx = Repository([b \in local |-> IF b = Chars("main") THEN "c1" ELSE "c2"],
                           (Chars("main") :> "c1") @@ (Chars("feat") :> "c2"),
                           <<Worktree(MainTree, Chars("main"), FALSE)>>,
                           {MainTree, Kept} \cup Ancestors(MainTree) \cup Ancestors(Kept))
    /\ config = NoConfig
    /\ parts = NoneV
    /\ template = <<>>
    /\ uri = NoneV
    /\ pc = "ready"
    /\ result = NoResult

\* The checkouts a command can be run in, and a directory outside of them
WorkingDirectories == {ctx.worktrees[i].path : i \in 1..Len(ctx.worktrees)} \cup {Kept}

\* What a call did: the repository before it, and what it returned
Called(op, args, done) ==
    [op |-> op, args |-> args, before |-> ctx, value |-> done.value]

AddWorktree ==
    \E path \in WorktreePaths, branch \in BranchNames, new_branch \in BOOLEAN,
       base_commit \in {NoneV, StrV("c2")} :
        /\ new_branch \/ IsNone(base_commit)
        /\ ctx' = add_worktree(ctx, path, branch, new_branch, base_commit).repo
        /\ result' = Called("add_worktree",
                            [path |-> path, branch |-> branch, create_branch |-> new_branch],
                            add_worktree(ctx, path, branch, new_branch, base_commit))
        /\ UNCHANGED <<config, uri, parts, template, pc>>

RemoveWorktree ==
    \E path \in WorktreePaths \cup {MainTree}, force \in BOOLEAN :
        /\ ctx' = remove_worktree(ctx, path, force).repo
        /\ result' = Called("remove_worktree", [path |-> path, force |-> force],
                            remove_worktree(ctx, path, force))
        /\ UNCHANGED <<config, uri, parts, template, pc>>

\* gww remove <branch-or-path> [--force]
RunRemove ==
    \E cwd \in WorkingDirectories, branch_or_path \in BranchNames \cup WorktreePaths,
       force \in BOOLEAN :
        /\ ctx' = MainIn(run_remove(ctx, cwd, branch_or_path, force)).repo
        /\ result' = Called("remove",
                            [cwd |-> cwd, branch_or_path |-> branch_or_path, force |-> force],
                            MainIn(run_remove(ctx, cwd, branch_or_path, force)))
        /\ UNCHANGED <<config, uri, parts, template, pc>>

\* Somebody changes a file in a checkout
Edit ==
    \E i \in 1..Len(ctx.worktrees) :
        /\ ~ctx.worktrees[i].dirty
        /\ ctx' = [ctx EXCEPT !.worktrees[i].dirty = TRUE]
        /\ result' = NoResult
        /\ UNCHANGED <<config, uri, parts, template, pc>>

\* and takes the change back
Discard ==
    \E i \in 1..Len(ctx.worktrees) :
        /\ ctx.worktrees[i].dirty
        /\ ctx' = [ctx EXCEPT !.worktrees[i].dirty = FALSE]
        /\ result' = NoResult
        /\ UNCHANGED <<config, uri, parts, template, pc>>

NextWorktree == AddWorktree \/ RemoveWorktree \/ RunRemove \/ Edit \/ Discard

SpecWorktree == InitWorktree /\ [][NextWorktree]_vars

\* A branch is checked out in at most one entry of the worktree list
OneWorktreePerBranch(repo) ==
    \A i, j \in 1..Len(repo.worktrees) :
        repo.worktrees[i].branch = repo.worktrees[j].branch => i = j

\* C23: after any sequence of add_worktree and remove_worktree calls no
\* branch is checked out in more than one worktree, and add_worktree for a
\* branch that has a worktree already (the main working tree counts) raises
\* WorktreeExistsError with no directory made and no entry added.
C23_OneWorktreePerBranch ==
    /\ OneWorktreePerBranch(ctx)
    /\ (/\ result.op = "add_worktree"
        /\ ~IsNone(find_worktree_by_branch(result.before, result.args.branch)))
       => /\ IsRaise(result.value)
          /\ result.value.exc = "WorktreeExistsError"
          /\ ctx = result.before

\* add_worktree was called for the branch of a linked worktree, at a path
\* whose parent directory is not there
C23_Witness ==
    /\ result.op = "add_worktree"
    /\ ~IsNone(find_worktree_by_branch(result.before, result.args.branch))
    /\ find_worktree_by_branch(result.before, result.args.branch).path # MainTree
    /\ result.args.path \notin result.before.dirs
    /\ Ancestors(result.args.path) \ result.before.dirs # {}
    /\ IsRaise(result.value)

\* add_worktree was called for the branch of the main working tree
C23_WitnessMain ==
    /\ result.op = "add_worktree"
    /\ result.args.branch = Chars("main")
    /\ IsRaise(result.value)
    /\ Len(ctx.worktrees) = 3

\* The worktree a remove command names: the path itself, or the worktree
\* of the branch when the command runs inside a checkout ("" when there is
\* none)
RemoveTarget ==
    IF Contains(result.args.branch_or_path, <<"/">>) THEN result.args.branch_or_path
    ELSE IF IsNone(find_worktree_by_path(result.before, result.args.cwd)) THEN <<>>
    ELSE IF IsNone(find_worktree_by_branch(result.before, result.args.branch_or_path)) THEN <<>>
    ELSE find_worktree_by_branch(result.before, result.args.branch_or_path).path

\* C21: a linked worktree with uncommitted changes is removed only with
\* force: without it remove_worktree raises WorktreeDirtyError and run_remove
\* returns 1, and the repository is as before; with force the entry and the
\* directory are gone; a path that is no registered worktree raises
\* WorktreeNotFoundError and the repository is as before.
C21_DirtyRemovedOnlyWithForce ==
    /\ result.op = "remove_worktree" /\ IsNone(find_worktree_by_path(result.before, result.args.path))
       => /\ IsRaise(result.value)
          /\ result.value.exc = "WorktreeNotFoundError"
          /\ ctx = result.before
    /\ (/\ result.op = "remove_worktree"
        /\ IsLinked(result.before, result.args.path)
        /\ find_worktree_by_path(result.before, result.args.path).dirty)
       => IF result.args.force
          THEN /\ IsNone(result.value)
               /\ IsNone(find_worktree_by_path(ctx, result.args.path))
               /\ result.args.path \notin ctx.dirs
          ELSE /\ IsRaise(result.value)
               /\ result.value.exc = "WorktreeDirtyError"
               /\ ctx = result.before
    /\ (/\ result.op = "remove"
        /\ IsLinked(result.before, RemoveTarget)
        /\ find_worktree_by_path(result.before, RemoveTarget).dirty)
       => IF result.args.force
          THEN /\ result.value.exit = 0
               /\ IsNone(find_worktree_by_path(ctx, RemoveTarget))
               /\ RemoveTarget \notin ctx.dirs
          ELSE /\ result.value.exit = 1
               /\ IsRaise(result.value.raised)
               /\ result.value.raised.exc = "WorktreeDirtyError"
               /\ ctx = result.before

\* remove_worktree without force was called for a linked worktree with
\* changes
C21_Witness ==
    /\ result.op = "remove_worktree"
    /\ IsLinked(result.before, result.args.path)
    /\ find_worktree_by_path(result.before, result.args.path).dirty
    /\ ~result.args.force
    /\ IsLinked(ctx, result.args.path)

\* gww remove --force was run on the branch of a linked worktree with changes
C21_WitnessForce ==
    /\ result.op = "remove"
    /\ ~Contains(result.args.branch_or_path, <<"/">>)
    /\ IsLinked(result.before, RemoveTarget)
    /\ find_worktree_by_path(result.before, RemoveTarget).dirty
    /\ result.args.force
    /\ result.value.exit = 0

\* remove_worktree was called for a directory that is no worktree
C21_WitnessNotFound ==
    /\ result.op = "remove_worktree"
    /\ result.args.path = Kept
    /\ IsRaise(result.value)
    /\ Kept \in ctx.dirs

----------------------------------------------------------------------------
(* The add command in a repository *)

\* The configs of the add command: no source rule, and a source rule whose
\* predicate is no boolean
AddConfigs ==
    { ConfigWithActions(Config(DefaultSources, DefaultWorktrees, <<>>), <<>>),
      ConfigWithActions(Config(DefaultSources, DefaultWorktrees,
                               << SourceRule(RuleName(1), RulePredicates[5],
                                             StrV(RuleSources(1)), StrV(RuleWorktrees(1))) >>),
                        <<>>) }

\* Where the default worktrees template puts the branches feat and new
FeatPath == Chars("/home/u/w/repo/feat")
NewPath == Chars("/home/u/w/repo/new")

\* A clone of origin with main checked out; feat is only on origin, or is a
\* local branch, or has a worktree; the place of the worktree of new is free
\* or taken
InitAdd ==
    /\ \E local \in {{Chars("main")}, {Chars("main"), Chars("feat")}},
          linked \in SUBSET {FeatPath}, taken \in SUBSET {NewPath} :
          /\ linked # {} => Chars("feat") \in local
          /\ ctx = Repository([b \in local |-> IF b = Chars("main") THEN "c1" ELSE "c2"],
                              (Chars("main") :> "c1") @@ (Chars("feat") :> "c2"),
                              <<Worktree(MainTree, Chars("main"), FALSE)>>
                              \o (IF linked = {} THEN <<>>
                                  ELSE <<Worktree(FeatPath, Chars("feat"), FALSE)>>),
                              {MainTree, Kept} \cup Ancestors(MainTree) \cup Ancestors(Kept)
                              \cup linked \cup taken
                              \cup UNION {Ancestors(d) : d \in linked \cup taken})
    /\ \/ config \in AddConfigs /\ parts = Environment("ok", "ok", "ok", FALSE)
       \/ /\ config = ConfigWithActions(Config(DefaultSources, DefaultWorktrees, <<>>), <<>>)
          /\ parts = Environment("missing", "ok", "ok", FALSE)
    /\ template = Chars("https://github.com/user/repo.git")
    /\ uri = NoneV
    /\ pc = "ready"
    /\ result = NoResult

\* gww add <branch> [--create-branch]
RunAddBranch ==
    \E cwd \in WorkingDirectories, branch \in BranchNames, new_branch \in BOOLEAN :
      \E u \in {parse_uri(template)} :
        \E done \in {MainIn(run_add_in(ctx, cwd, u, branch, new_branch, config, NoTags, parts))} :
            /\ ctx' = done.repo
            /\ result' = Called("add",
                                [cwd |-> cwd, branch |-> branch, create_branch |-> new_branch],
                                done)
            /\ UNCHANGED <<config, uri, parts, template, pc>>

NextAdd == RunAddBranch \/ RunRemove

SpecAdd == InitAdd /\ [][NextAdd]_vars

\* The command was run inside a checkout for a branch that neither the
\* repository nor origin has
AddOfMissingBranch ==
    /\ result.op = "add"
    /\ ~IsNone(find_worktree_by_path(result.before, result.args.cwd))
    /\ ~branch_exists(result.before, result.args.branch)

\* C22: run_add for a branch that exists neither locally nor on the remote
\* returns 1 and creates neither a branch nor a worktree, unless
\* --create-branch is given; then the branch is created from the current
\* commit of the working directory, the worktree is added for it and the
\* command returns 0.
C22_CreateBranchThenAdd ==
    AddOfMissingBranch =>
        IF result.args.create_branch
        THEN /\ result.value.exit = 0
             /\ result.args.branch \in DOMAIN ctx.heads
             /\ ctx.heads[result.args.branch]
                    = get_current_commit(result.before, result.args.cwd)
             /\ ~IsNone(find_worktree_by_branch(ctx, result.args.branch))
        ELSE /\ result.value.exit = 1
             /\ ctx = result.before

----------------------------------------------------------------------------
(* The clone command and the directories it clones into *)

\* The directories that exist, and the clones among them, each with the URI
\* it was made from
Tree(dirs, clones) == [dirs |-> dirs, clones |-> clones]

\* The directories that hold a clone
Cloned(tree) == {c[1] : c \in tree.clones}

\* What a command did: its exit code or exception, and the steps it took
Ran(run, steps) == [t |-> "ran", run |-> run, steps |-> steps]

\* A directory with something in it
IsOccupied(tree, path) ==
    path \in Cloned(tree) \/ \E d \in tree.dirs : path \in Ancestors(d)

\* git clone <uri> <target>: fails when origin cannot be read and for a
\* target that is there and is not an empty directory
GitClone(tree, uri_str, target, env) ==
    IF env.git = "fails" THEN Done(tree, GitCommandError("could not read from remote"))
    ELSE IF IsOccupied(tree, target)
    THEN Done(tree, GitCommandError("already exists and is not an empty directory"))
    ELSE Done(Tree(tree.dirs \cup {target}, tree.clones \cup {<<target, uri_str>>}), NoneV)

\* clone_repository: the parent directory is made, then git clone runs
clone_repository(tree, uri_str, target_path, env) ==
    GitClone(Tree(tree.dirs \cup Ancestors(target_path), tree.clones), uri_str, target_path, env)

\* run_clone from the project actions on: execute_actions runs when there
\* is an action
CloneActions(tree, actions, steps) ==
    IF IsRaise(actions) THEN Done(tree, Ran(CommandActions(actions), steps))
    ELSE IF Len(actions.l) > 0
    THEN Done(tree, Ran(CommandActions(actions), Append(steps, "execute_actions")))
    ELSE Done(tree, Ran(CommandActions(actions), steps))

\* run_clone from the clone on
ClonedIn(cloned, cfg, source_path, tags, env, steps) ==
    IF IsRaise(cloned.value) THEN Done(cloned.repo, Ran(Run(1, cloned.value), steps))
    ELSE IF Projects(cfg) # <<>>
    THEN CloneActions(cloned.repo,
                      get_source_actions(Projects(cfg), source_path, tags, NoneV, env.fs),
                      Append(steps, "get_source_actions"))
    ELSE Done(cloned.repo, Ran(Run(0, NoneV), steps))

\* Mutation of CloneAtIn: git clone runs whether the source path exists or
\* not
CloneAtIn_unchecked(tree, uri_str, cfg, source_path, tags, env, steps) ==
    ClonedIn(clone_repository(tree, uri_str, source_path.p, env), cfg, source_path, tags, env,
             Append(steps, "clone_repository"))

\* run_clone from the resolved source path on
CloneAtIn(tree, uri_str, cfg, source_path, tags, env, steps) ==
    IF source_path.p \in tree.dirs THEN Done(tree, Ran(Run(1, NoneV), Append(steps, "exists")))
    ELSE ClonedIn(clone_repository(tree, uri_str, source_path.p, env), cfg, source_path, tags,
                  env, steps \o <<"exists", "clone_repository">>)

\* except ResolverError: return 2
CloneResolvedIn(tree, uri_str, cfg, source_path, tags, env, steps) ==
    IF IsRaise(source_path) /\ source_path.exc = "ResolverError"
    THEN Done(tree, Ran(Run(2, source_path), steps))
    ELSE IF IsRaise(source_path) THEN Done(tree, Ran(source_path, steps))
    ELSE CloneAtIn(tree, uri_str, cfg, source_path, tags, env, steps)

\* run_clone from the parsed URI on
CloneParsedIn(tree, uri_str, u, cfg, tags, env) ==
    IF IsRaise(u) THEN Done(tree, Ran(Run(1, NoneV), <<"parse_uri">>))
    ELSE IF env.config_state # "ok"
    THEN Done(tree, Ran(Run(2, NoneV), <<"parse_uri", "load_config">>))
    ELSE CloneResolvedIn(tree, uri_str, cfg, resolveSourcePath(cfg, u, tags), tags, env,
                         <<"parse_uri", "load_config", "resolve_source_path">>)

\* run_clone with the directories it changes; u is what parse_uri made of
\* uri_str
run_clone_in(tree, uri_str, u, cfg, tags, env) ==
    CloneParsedIn(tree, uri_str, u, cfg, tags, env)

\* main around run_clone
MainClone(done) == Done(done.repo, Ran(main(done.value.run), done.value.steps))

\* Two repositories of one name, a repository of another name, and a string
\* that is no URI
CloneUris ==
    { Chars("https://github.com/user/repo.git"), Chars("https://github.com/other/repo.git"),
      Chars("https://github.com/user/tool"), Chars("repo") }

\* Where the default sources template puts the repositories named repo
RepoPath == Chars("/home/u/d/repo")

\* The configs of the clone command: no project rule or one, and a sources
\* template that calls a function nobody registered
CloneConfigs ==
    { ConfigWithActions(Config(DefaultSources, DefaultWorktrees, <<>>), rs) :
        rs \in ProjectRulesOf(0) \cup ProjectRulesOf(1) }
    \cup { ConfigWithActions(Config(Chars("~/d/nothing()"), DefaultWorktrees, <<>>), <<>>) }

\* Nothing is cloned yet; the place of the repositories named repo is free
\* or is an empty directory
InitClone ==
    /\ \E taken \in SUBSET {RepoPath} :
          ctx = Tree({HomeDir} \cup Ancestors(HomeDir) \cup taken
                     \cup UNION {Ancestors(d) : d \in taken}, {})
    /\ \/ config \in CloneConfigs /\ parts = Environment("ok", "ok", "ok", FALSE)
       \/ /\ config = ConfigWithActions(Config(DefaultSources, DefaultWorktrees, <<>>), <<>>)
          /\ parts \in {Environment("missing", "ok", "ok", FALSE),
                        Environment("ok", "ok", "fails", FALSE)}
    /\ template = <<>>
    /\ uri = NoneV
    /\ pc = "ready"
    /\ result = NoResult

\* gww clone <uri>
RunCloneIn ==
    \E uri_str \in CloneUris :
      \E u \in {parse_uri(uri_str)} :
        \E done \in {MainClone(run_clone_in(ctx, uri_str, u, config, NoTags, parts))} :
            /\ ctx' = done.repo
            /\ result' = Called("clone", [uri |-> uri_str, u |-> u], done)
            /\ UNCHANGED <<config, uri, parts, template, pc>>

\* Somebody removes a directory with what is in it
RemoveTree ==
    \E path \in ctx.dirs \ ({HomeDir} \cup Ancestors(HomeDir)) :
        /\ ctx' = Tree({d \in ctx.dirs : d # path /\ path \notin Ancestors(d)},
                       {c \in ctx.clones : c[1] # path /\ path \notin Ancestors(c[1])})
        /\ result' = NoResult
        /\ UNCHANGED <<config, uri, parts, template, pc>>

NextClone == RunCloneIn \/ RemoveTree

SpecClone == InitClone /\ [][NextClone]_vars

\* The position of a step among the steps of the command, 0 when it was
\* not taken
StepAt(steps, step) ==
    IF \E i \in 1..Len(steps) : steps[i] = step
    THEN CHOOSE i \in 1..Len(steps) : steps[i] = step
    ELSE 0

\* The source path the command resolved
ResolvedPath == resolveSourcePath(config, result.args.u, NoTags)

C24_WitnessEmpty ==
    /\ result.op = "clone"
    /\ ~IsRaise(result.args.u)
    /\ ~IsRaise(ResolvedPath)
    /\ ResolvedPath.p \in result.before.dirs
    /\ ~IsOccupied(result.before, ResolvedPath.p)
    /\ result.value.run.exit = 1

\* The command cloned and ran the actions of a rule
C24_WitnessCloned ==
    /\ result.op = "clone"
    /\ StepAt(result.value.steps, "execute_actions") > 0
    /\ result.value.run.exit = 0
    /\ RepoPath \in Cloned(ctx)

----------------------------------------------------------------------------
(* The migrate command *)

\* A checkout on the disk: a source repository, a worktree (with the path of
\* its source repository and its branch) or a submodule; uri is the URI of
\* origin, None when there is none
Checkout(path, remote_uri, kind, source_path, branch) ==
    [path |-> path, remote_uri |-> remote_uri, kind |-> kind,
     source_path |-> source_path, branch |-> branch]

\* No URI of origin, no branch (a detached HEAD), no source repository
NoStr == [t |-> "none", s |-> <<>>]
NoPath == [t |-> "none", p |-> <<>>]

\* The disk: the directories, those among them that hold files, the
\* checkouts, and the source repositories git worktree repair was run in
Disk(dirs, files, repos, repaired) ==
    [dirs |-> dirs, files |-> files, repos |-> repos, repaired |-> repaired]

\* d is the directory or is inside it
Within(directory, d) == d = directory \/ directory \in Ancestors(d)

\* Path.parent and Path.name
Parent(path) == SubSeq(path, 1, RFind(path, <<"/">>) - 1)
Name_(path) == From(path, RFind(path, <<"/">>) + 1)

\* The path of d after old_path has become new_path
Rebase(old_path, new_path, d) ==
    IF Within(old_path, d) THEN new_path \o From(d, Len(old_path) + 1) ELSE d

\* (root_path / ".git").exists()
HasGit(disk, root_path) == \E r \in disk.repos : r.path = root_path

CheckoutAt(disk, root_path) == CHOOSE r \in disk.repos : r.path = root_path

\* is_submodule: the .git file of the directory points into the modules of
\* a repository
is_submodule(disk, root_path) == CheckoutAt(disk, root_path).kind = "submodule"

\* The directories of the disk that are at or under one of them, in the
\* order os.walk lists them in
WalkUnder(disk, walk, directory) ==
    LET IsUnder(d) == d \in disk.dirs /\ Within(directory, d)
    IN  SelectSeq(walk, IsUnder)

\* The repository roots among the directories of a walk
RootsIn(disk, visited) ==
    LET IsRoot(d) == HasGit(disk, d) /\ ~is_submodule(disk, d)
    IN  SelectSeq(visited, IsRoot)

\* _find_git_repositories: os.walk yields the directory and every directory
\* under it (walk is the order it lists them in); the callback is called for
\* each; only .git is taken out of the directories to descend into
_find_git_repositories(disk, directory, walk) ==
    [repos |-> RootsIn(disk, WalkUnder(disk, walk, directory)),
     visited |-> WalkUnder(disk, walk, directory)]

RECURSIVE Deduplicated(_, _)
\* if resolved not in seen: seen.add(resolved); repos.append(repo_path)
Deduplicated(repos, seen) ==
    IF repos = <<>> THEN <<>>
    ELSE IF Head(repos) \in seen THEN Deduplicated(Tail(repos), seen)
    ELSE <<Head(repos)>> \o Deduplicated(Tail(repos), seen \cup {Head(repos)})

RECURSIVE FoundIn(_, _, _)
FoundIn(disk, input_paths, walk) ==
    IF input_paths = <<>> THEN <<>>
    ELSE _find_git_repositories(disk, Head(input_paths), walk).repos
         \o FoundIn(disk, Tail(input_paths), walk)

\* _collect_all_repos: the repositories of every input directory, each once
_collect_all_repos(disk, input_paths, walk) ==
    Deduplicated(FoundIn(disk, input_paths, walk), {})

MigrationPlan(old_path, new_path, remote_uri, reason, is_worktree_, source_path) ==
    [t |-> "MigrationPlan", old_path |-> old_path, new_path |-> new_path,
     uri |-> remote_uri, reason |-> reason, is_worktree |-> is_worktree_,
     source_path |-> source_path]

\* _plan_migration for one repository, from the expected path on: None
\* stands for continue
PlanResolved(disk, checkout, expected_path) ==
    IF IsRaise(expected_path) /\ expected_path.exc = "ResolverError" THEN NoneV
    ELSE IF IsRaise(expected_path) THEN expected_path
    ELSE IF checkout.path = expected_path.p
    THEN [t |-> "already_at_target", path |-> checkout.path]
    ELSE MigrationPlan(checkout.path, expected_path.p, checkout.remote_uri,
                       IF expected_path.p \in disk.dirs
                       THEN "destination exists - will skip" ELSE "",
                       checkout.kind = "worktree", checkout.source_path)

\* _plan_migration for one repository, from the parsed URI on
PlanParsed(disk, checkout, u, cfg, tags) ==
    IF IsRaise(u) THEN NoneV
    ELSE IF checkout.kind = "worktree"
    THEN IF IsNone(checkout.branch) THEN NoneV
         ELSE PlanResolved(disk, checkout,
                           resolveWorktreePath(cfg, u, StrV(checkout.branch.s), tags))
    ELSE PlanResolved(disk, checkout, resolveSourcePath(cfg, u, tags))

PlanRepo(disk, checkout, cfg, tags) ==
    IF IsNone(checkout.remote_uri) THEN NoneV
    ELSE PlanParsed(disk, checkout, parse_uri(checkout.remote_uri.s), cfg, tags)

RECURSIVE PlansOf(_, _, _, _)
PlansOf(disk, repos, cfg, tags) ==
    IF repos = <<>> THEN <<>>
    ELSE <<PlanRepo(disk, CheckoutAt(disk, Head(repos)), cfg, tags)>>
         \o PlansOf(disk, Tail(repos), cfg, tags)

IsPlan(p) == p.t = "MigrationPlan"
IsAlreadyAtTarget(p) == p.t = "already_at_target"

\* _plan_migration: the plans and the repositories already at their target,
\* or the exception of the resolver that is no ResolverError
Planned(outcomes) ==
    IF \E i \in 1..Len(outcomes) : IsRaise(outcomes[i])
    THEN outcomes[CHOOSE i \in 1..Len(outcomes) :
                    IsRaise(outcomes[i]) /\ \A j \in 1..(i - 1) : ~IsRaise(outcomes[j])]
    ELSE [t |-> "planned", plans |-> SelectSeq(outcomes, IsPlan),
          already_at_target |-> SelectSeq(outcomes, IsAlreadyAtTarget)]

_plan_migration(disk, repos, cfg, tags) == Planned(PlansOf(disk, repos, cfg, tags))

\* path.parent.mkdir(parents=True, exist_ok=True)
MakeParents(disk, path) ==
    Disk(disk.dirs \cup Ancestors(path), disk.files, disk.repos, disk.repaired)

\* os.rename of a directory with all that is in it
Renamed(disk, old_path, new_path) ==
    Disk({Rebase(old_path, new_path, d) : d \in disk.dirs},
         {Rebase(old_path, new_path, d) : d \in disk.files},
         {[r EXCEPT !.path = Rebase(old_path, new_path, r.path)] : r \in disk.repos},
         disk.repaired)

\* shutil.move: a destination that is a directory takes the source inside
\* it, under the source's name, unless that name is there already
shutil_move(disk, src, dst) ==
    IF src \notin disk.dirs THEN Done(disk, Raise("FileNotFoundError"))
    ELSE IF dst \notin disk.dirs THEN Done(Renamed(disk, src, dst), NoneV)
    ELSE IF (dst \o <<"/">> \o Name_(src)) \in disk.dirs THEN Done(disk, Raise("Error"))
    ELSE Done(Renamed(disk, src, dst \o <<"/">> \o Name_(src)), NoneV)

\* shutil.copytree: the destination must not exist
shutil_copytree(disk, src, dst) ==
    IF dst \in disk.dirs THEN Done(disk, Raise("FileExistsError"))
    ELSE Done(Disk(disk.dirs \cup {Rebase(src, dst, d) : d \in {e \in disk.dirs : Within(src, e)}},
                   disk.files
                   \cup {Rebase(src, dst, d) : d \in {e \in disk.files : Within(src, e)}},
                   disk.repos
                   \cup {[r EXCEPT !.path = Rebase(src, dst, r.path)] :
                           r \in {q \in disk.repos : Within(src, q.path)}},
                   disk.repaired), NoneV)

\* repair_worktrees: git worktree repair run in a source repository
repair_worktrees(disk, source_path) ==
    Disk(disk.dirs, disk.files, disk.repos, disk.repaired \cup {source_path})

\* _fix_copied_worktree_gitfile: the .git file of the copied worktree is
\* written to point into the new source repository
_fix_copied_worktree_gitfile(disk, new_worktree_path, old_worktree_path, new_source_path) ==
    Disk(disk.dirs, disk.files,
         {IF r.path = new_worktree_path /\ r.kind = "worktree"
          THEN [r EXCEPT !.source_path = [t |-> "Path", p |-> new_source_path]] ELSE r :
            r \in disk.repos},
         disk.repaired)

\* The end of a run, the repositories it printed as not migrated, and
\* the plans it had made
Migrated(run, reported, plans) ==
    [t |-> "migrated", run |-> run, reported |-> reported, plans |-> plans]

\* The end of _run_inplace and of _run_copy
Outcome(run, reported) == [run |-> run, reported |-> reported]

\* One move of _run_inplace: the parent is made, the repository moved, and
\* git worktree repair run where repair names a repository
MoveRepaired(moved, repair) ==
    IF IsRaise(moved.value) \/ IsNone(repair) THEN moved
    ELSE Done(repair_worktrees(moved.repo, repair.p), NoneV)

MovePlan(disk, plan, repair) ==
    MoveRepaired(shutil_move(MakeParents(disk, plan.new_path), plan.old_path, plan.new_path),
                 repair)

\* The source repositories of the worktrees that are moved
SourcePathsWithWorktrees(worktree_plans) ==
    {worktree_plans[i].source_path.p :
        i \in {j \in 1..Len(worktree_plans) : ~IsNone(worktree_plans[j].source_path)}}

\* What is repaired after the move of a plan: the source repository of a
\* worktree, the new place of a source repository that had worktrees moved
RepairOf(plan, with_worktrees) ==
    IF plan.is_worktree THEN plan.source_path
    ELSE IF plan.old_path \in with_worktrees THEN [t |-> "Path", p |-> plan.new_path]
    ELSE NoPath

RECURSIVE MoveAll(_, _, _, _)
\* The two passes of _run_inplace over plans; under dry_run each plan is
\* printed and nothing else
MoveAll(done, plans, with_worktrees, dry_run) ==
    IF plans = <<>> \/ IsRaise(done.value) \/ dry_run THEN done
    ELSE MoveAll(MovePlan(done.repo, Head(plans), RepairOf(Head(plans), with_worktrees)),
                 Tail(plans), with_worktrees, dry_run)

\* len(p.parts) of an absolute path
Parts(path) == 1 + Cardinality({j \in 2..Len(path) : path[j] = "/"}) + 1

\* The deepest directories that a set of paths reaches
MaxParts_(paths) ==
    IF paths = <<>> THEN 0
    ELSE CHOOSE n \in {Parts(paths[i]) : i \in 1..Len(paths)} :
            \A i \in 1..Len(paths) : Parts(paths[i]) <= n

RECURSIVE SortedDeepestFirst(_, _)
\* sorted(vacated, key=lambda p: len(p.parts), reverse=True), which keeps
\* the order of paths of one depth
SortedDeepestFirst(paths, n) ==
    IF n = 0 THEN <<>>
    ELSE LET HasParts(p) == Parts(p) = n
         IN  SelectSeq(paths, HasParts) \o SortedDeepestFirst(paths, n - 1)

\* any(current.iterdir())
HasEntries(disk, current) ==
    \/ current \in disk.files
    \/ HasGit(disk, current)
    \/ \E d \in disk.dirs : d # current /\ Parent(d) = current

RECURSIVE RemoveEmptyFrom(_, _, _)
\* while True: leave at an input root, at a path that is not there, at a
\* directory with entries; else remove the directory and go on with its parent
RemoveEmptyFrom(disk, current, roots_set) ==
    IF current \in roots_set \/ current \notin disk.dirs THEN disk
    ELSE IF HasEntries(disk, current) THEN disk
    ELSE RemoveEmptyFrom(Disk(disk.dirs \ {current}, disk.files, disk.repos, disk.repaired),
                         Parent(current), roots_set)

RECURSIVE CleanVacated(_, _, _)
CleanVacated(disk, vacated_sorted, roots_set) ==
    IF vacated_sorted = <<>> THEN disk
    ELSE CleanVacated(RemoveEmptyFrom(disk, Head(vacated_sorted), roots_set),
                      Tail(vacated_sorted), roots_set)

OldPaths(plans) == [i \in 1..Len(plans) |-> plans[i].old_path]

\* _run_inplace after the two passes: the clean-up of the vacated paths
InplaceCleaned(done, valid_plans, input_roots, dry_run) ==
    IF IsRaise(done.value) THEN Done(done.repo, Outcome(done.value, <<>>))
    ELSE IF ~dry_run /\ valid_plans # <<>>
    THEN Done(CleanVacated(done.repo,
                           SortedDeepestFirst(OldPaths(valid_plans),
                                              MaxParts_(OldPaths(valid_plans))),
                           {input_roots[i] : i \in 1..Len(input_roots)}),
              Outcome(Run(0, NoneV), <<>>))
    ELSE Done(done.repo, Outcome(Run(0, NoneV), <<>>))

IsWorktreePlan(p) == p.is_worktree
IsSourcePlan(p) == ~p.is_worktree

\* Mutation of _run_inplace: the two passes go on to the move under dry_run
_run_inplace_moving(disk, valid_plans, input_roots, dry_run) ==
    InplaceCleaned(
        MoveAll(MoveAll(Done(disk, NoneV), SelectSeq(valid_plans, IsWorktreePlan),
                        {}, FALSE),
                SelectSeq(valid_plans, IsSourcePlan),
                SourcePathsWithWorktrees(SelectSeq(valid_plans, IsWorktreePlan)), FALSE),
        valid_plans, input_roots, dry_run)

\* _run_inplace: the worktrees are moved, then the sources, then the
\* directories they left are cleaned
_run_inplace(disk, valid_plans, input_roots, dry_run) ==
    InplaceCleaned(
        MoveAll(MoveAll(Done(disk, NoneV), SelectSeq(valid_plans, IsWorktreePlan),
                        {}, dry_run),
                SelectSeq(valid_plans, IsSourcePlan),
                SourcePathsWithWorktrees(SelectSeq(valid_plans, IsWorktreePlan)), dry_run),
        valid_plans, input_roots, dry_run)

\* The new place of the source repository of a copied worktree, None when
\* the source repository is not copied in this run
NewSource(source_plans, plan) ==
    IF \E i \in 1..Len(source_plans) : source_plans[i].old_path = plan.source_path.p
    THEN [t |-> "Path",
          p |-> source_plans[CHOOSE i \in 1..Len(source_plans) :
                                /\ source_plans[i].old_path = plan.source_path.p
                                /\ \A j \in 1..(i - 1) :
                                      source_plans[j].old_path # plan.source_path.p].new_path]
    ELSE NoPath

\* The end of a worktree copy: the .git file is fixed and the new source
\* repository repaired, or the old one when it is not copied
CopyRepaired(copied, plan, new_source) ==
    IF IsRaise(copied.value) \/ IsNone(plan.source_path) THEN copied
    ELSE IF ~IsNone(new_source)
    THEN Done(repair_worktrees(_fix_copied_worktree_gitfile(copied.repo, plan.new_path,
                                                            plan.old_path, new_source.p),
                               new_source.p), NoneV)
    ELSE Done(repair_worktrees(copied.repo, plan.source_path.p), NoneV)

\* One copy of _run_copy
CopyPlan(disk, plan, source_plans) ==
    IF plan.is_worktree
    THEN CopyRepaired(shutil_copytree(MakeParents(disk, plan.new_path),
                                      plan.old_path, plan.new_path),
                      plan, NewSource(source_plans, plan))
    ELSE shutil_copytree(MakeParents(disk, plan.new_path), plan.old_path, plan.new_path)

\* The repository and the paths whose copy failed, after one more copy:
\* except OSError: failed += 1
CopyCounted(state, copied, plan) ==
    [repo |-> copied.repo,
     failed |-> IF IsRaise(copied.value) THEN Append(state.failed, plan.old_path)
                ELSE state.failed]

RECURSIVE CopyAll(_, _, _)
CopyAll(state, plans, source_plans) ==
    IF plans = <<>> THEN state
    ELSE CopyAll(CopyCounted(state, CopyPlan(state.repo, Head(plans), source_plans),
                             Head(plans)),
                 Tail(plans), source_plans)

\* return 1 if failed > 0 else 0
CopyReturned(state, skipped_plans, valid_plans) ==
    Done(state.repo,
         Outcome(Run(IF Len(state.failed) > 0 THEN 1 ELSE 0, NoneV),
                 OldPaths(skipped_plans) \o state.failed))

\* _run_copy: without a valid plan and under dry_run the plans are printed;
\* else the sources are copied, then the worktrees
_run_copy(disk, valid_plans, skipped_plans, dry_run) ==
    IF valid_plans = <<>> \/ dry_run
    THEN Done(disk, Outcome(Run(0, NoneV), OldPaths(skipped_plans)))
    ELSE CopyReturned(
            CopyAll([repo |-> disk, failed |-> <<>>],
                    SelectSeq(valid_plans, IsSourcePlan) \o SelectSeq(valid_plans, IsWorktreePlan),
                    SelectSeq(valid_plans, IsSourcePlan)),
            skipped_plans, valid_plans)

HasReason(p) == p.reason # ""
HasNoReason(p) == p.reason = ""

MigratedWith(done, plans) ==
    Done(done.repo, Migrated(done.value.run, done.value.reported, plans))

\* run_migrate from the plans on
MigratePlanned(disk, planned, input_paths, dry_run, inplace) ==
    IF IsRaise(planned) THEN Done(disk, Migrated(planned, <<>>, <<>>))
    ELSE IF planned.plans = <<>> /\ planned.already_at_target = <<>>
    THEN Done(disk, Migrated(Run(0, NoneV), <<>>, <<>>))
    ELSE IF inplace
    THEN MigratedWith(_run_inplace(disk, SelectSeq(planned.plans, HasNoReason),
                                   input_paths, dry_run),
                      planned.plans)
    ELSE MigratedWith(_run_copy(disk, SelectSeq(planned.plans, HasNoReason),
                                SelectSeq(planned.plans, HasReason), dry_run),
                      planned.plans)

\* run_migrate: the input paths must be directories and the config must
\* load; then the repositories are collected, planned and moved or copied
run_migrate(disk, input_paths, dry_run, inplace, cfg, tags, env, walk) ==
    IF \E i \in 1..Len(input_paths) : input_paths[i] \notin disk.dirs
    THEN Done(disk, Migrated(Run(1, NoneV), <<>>, <<>>))
    ELSE IF env.config_state # "ok" THEN Done(disk, Migrated(Run(2, NoneV), <<>>, <<>>))
    ELSE MigratePlanned(disk,
                        _plan_migration(disk, _collect_all_repos(disk, input_paths, walk),
                                        cfg, tags),
                        input_paths, dry_run, inplace)

\* main around run_migrate
MainMigrate(done) ==
    Done(done.repo, Migrated(main(done.value.run), done.value.reported, done.value.plans))

----------------------------------------------------------------------------
(* Migrations of a directory of checkouts *)

OldDir == Chars("/home/u/old")
SourcesDir == Chars("/home/u/d")
WorktreesDir == Chars("/home/u/w")

Old(rest) == OldDir \o Chars(rest)
Origin(rest) == StrV(Chars("https://github.com/") \o Chars(rest))

\* A source repository with a remote
Source(path, rest) == Checkout(path, Origin(rest), "source", NoPath, StrV(Chars("main")))

\* The directories of a set of paths, with the directories above them
WithAncestors(paths) == paths \cup UNION {Ancestors(d) : d \in paths}

\* The checkouts a run finds: two repositories side by side; one repository
\* that is where the config puts it; a repository under directories that
\* hold nothing else, beside a directory of files; two repositories of one
\* name; a repository with directories, a submodule and a repository inside
\* it; a source repository and its worktree, on a branch or detached
Checkouts ==
    { [dirs |-> {Old("/p1"), Old("/p2")}, files |-> {Old("/p1"), Old("/p2")},
       repos |-> {Source(Old("/p1"), "user/p1.git"), Source(Old("/p2"), "user/p2.git")}],
      [dirs |-> {Old("/p1"), SourcesDir \o Chars("/p2")}, files |-> {Old("/p1")},
       repos |-> {Source(Old("/p1"), "user/p1.git"),
                  Source(SourcesDir \o Chars("/p2"), "user/p2.git")}],
      [dirs |-> {Old("/grp/sub/p1"), Old("/keep"), Old("/p2")},
       files |-> {Old("/grp/sub/p1"), Old("/keep")},
       repos |-> {Source(Old("/grp/sub/p1"), "user/p1.git"),
                  Checkout(Old("/p2"), NoStr, "source", NoPath, StrV(Chars("main")))}],
      [dirs |-> {Old("/a/p"), Old("/b/p")}, files |-> {Old("/a/p")},
       repos |-> {Source(Old("/a/p"), "user/p.git"), Source(Old("/b/p"), "other/p.git")}],
      [dirs |-> {Old("/repo_a/src"), Old("/repo_a/sub"), Old("/repo_a/vendor/lib")},
       files |-> {Old("/repo_a/src")},
       repos |-> {Source(Old("/repo_a"), "user/repo_a.git"),
                  Source(Old("/repo_a/vendor/lib"), "user/lib.git"),
                  Checkout(Old("/repo_a/sub"), Origin("user/sub.git"), "submodule",
                           [t |-> "Path", p |-> Old("/repo_a")], NoStr)}] }
    \cup { [dirs |-> {Old("/s"), Old("/wt")}, files |-> {Old("/s"), Old("/wt")},
            repos |-> {Source(Old("/s"), "user/s.git"),
                       Checkout(Old("/wt"), Origin("user/s.git"), "worktree",
                                [t |-> "Path", p |-> Old("/s")], branch)}] :
            branch \in {StrV(Chars("feat")), NoStr} }

\* The order os.walk lists directories in: a directory before what is in
\* it, the directories of one directory in the order of the file system
WalkAscending ==
    << OldDir, Old("/a"), Old("/a/p"), Old("/b"), Old("/b/p"), Old("/grp"), Old("/grp/sub"),
       Old("/grp/sub/p1"), Old("/keep"), Old("/p1"), Old("/p2"), Old("/repo_a"),
       Old("/repo_a/src"), Old("/repo_a/sub"), Old("/repo_a/vendor"),
       Old("/repo_a/vendor/lib"), Old("/s"), Old("/wt"),
       SourcesDir, SourcesDir \o Chars("/p"), SourcesDir \o Chars("/p1"),
       SourcesDir \o Chars("/p2"), SourcesDir \o Chars("/s") >>

WalkDescending ==
    << OldDir, Old("/wt"), Old("/s"), Old("/repo_a"), Old("/repo_a/vendor"),
       Old("/repo_a/vendor/lib"), Old("/repo_a/sub"), Old("/repo_a/src"), Old("/p2"),
       Old("/p1"), Old("/keep"), Old("/grp"), Old("/grp/sub"), Old("/grp/sub/p1"),
       Old("/b"), Old("/b/p"), Old("/a"), Old("/a/p"),
       SourcesDir, SourcesDir \o Chars("/s"), SourcesDir \o Chars("/p2"),
       SourcesDir \o Chars("/p1"), SourcesDir \o Chars("/p") >>

\* The places of the config a user may have made a directory at
Destinations == {SourcesDir \o Chars("/p1"), SourcesDir \o Chars("/p"), SourcesDir \o Chars("/s")}

\* The directories a run is given
InputPaths ==
    { <<OldDir>>, <<OldDir, SourcesDir>>, <<Old("/a"), Old("/b")>>, <<Old("/b"), Old("/a")>>,
      <<Old("/grp"), OldDir>> }

InitMigrate ==
    /\ \E c \in Checkouts :
          ctx = Disk(WithAncestors({HomeDir, OldDir, SourcesDir} \cup c.dirs), c.files,
                     c.repos, {})
    /\ config = ConfigWithActions(Config(DefaultSources, DefaultWorktrees, <<>>), <<>>)
    /\ \E walk \in {WalkAscending, WalkDescending} :
          \/ parts = [walk |-> walk, env |-> Environment("ok", "ok", "ok", FALSE)]
          \/ /\ walk = WalkAscending
             /\ parts = [walk |-> walk, env |-> Environment("missing", "ok", "ok", FALSE)]
    /\ uri = NoneV
    /\ template = <<>>
    /\ pc = "ready"
    /\ result = NoResult

\* A directory is made where the config will put a repository
MakeDirectory ==
    /\ pc = "ready"
    /\ \E d \in Destinations :
          /\ d \notin ctx.dirs
          /\ ctx' = Disk(ctx.dirs \cup {d}, ctx.files, ctx.repos, ctx.repaired)
    /\ UNCHANGED <<config, uri, parts, template, pc, result>>

\* _find_git_repositories on a directory of the disk
FindGitRepositories ==
    /\ pc = "ready"
    /\ \E directory \in {OldDir, Old("/repo_a"), Old("/grp"), SourcesDir} :
          /\ directory \in ctx.dirs
          /\ result' = Called("find", [directory |-> directory],
                              Done(ctx, _find_git_repositories(ctx, directory, parts.walk)))
    /\ UNCHANGED <<config, uri, ctx, parts, template, pc>>

\* gww migrate, once
RunMigrate ==
    /\ pc = "ready"
    /\ \E input_paths \in InputPaths, dry_run \in BOOLEAN, inplace \in BOOLEAN :
        \E done \in {MainMigrate(run_migrate(ctx, input_paths, dry_run, inplace, config,
                                             NoTags, parts.env, parts.walk))} :
            /\ ctx' = done.repo
            /\ result' = Called("migrate",
                                [input_paths |-> input_paths, dry_run |-> dry_run,
                                 inplace |-> inplace], done)
            /\ pc' = "done"
    /\ UNCHANGED <<config, uri, parts, template>>

NextMigrate == MakeDirectory \/ FindGitRepositories \/ RunMigrate

SpecMigrate == InitMigrate /\ [][NextMigrate]_vars

Elements(seq) == {seq[i] : i \in 1..Len(seq)}

\* C27: _find_git_repositories does not descend into a directory it has
\* recognised as a repository root: no directory inside a reported root is
\* visited and no repository inside a reported root is reported
C27_NoDescentIntoRepository ==
    result.op = "find" =>
        \A root \in Elements(result.value.repos) :
            \A d \in Elements(result.value.visited) \cup Elements(result.value.repos) :
                Within(root, d) => d = root

\* A run of migrate that came to its plans
IsMigration == result.op = "migrate" /\ result.value.run.t = "run"

SkippedPlans == SelectSeq(result.value.plans, HasReason)
ValidPlans == SelectSeq(result.value.plans, HasNoReason)

C26_WitnessCopy ==
    /\ IsMigration /\ result.args.dry_run /\ ~result.args.inplace
    /\ ValidPlans # <<>>
    /\ result.value.run.exit = 0

\* An inplace run that moved its repositories and returned 0
IsInplaceMove ==
    /\ IsMigration /\ result.args.inplace /\ ~result.args.dry_run
    /\ result.value.run.exit = 0 /\ ValidPlans # <<>>

\* The directories at and above the paths the moved repositories left
AboveVacated == WithAncestors(Elements(OldPaths(ValidPlans)))

Colliding ==
    {pair \in (1..Len(ValidPlans)) \X (1..Len(ValidPlans)) :
        pair[1] < pair[2] /\ ValidPlans[pair[1]].new_path = ValidPlans[pair[2]].new_path}

----------------------------------------------------------------------------
(* The extraction loop of _preprocess_template, pass by pass *)

MaxTemplateLen == 6
MaxCalls == 9

\* The characters of the raw templates: an identifier character, a digit,
\* a blank and the two parentheses
TemplateChars == {"f", "0", " ", "(", ")"}

\* Every template of up to MaxTemplateLen of these characters, and longer
\* ones: calls three deep (with a blank between closing parentheses, which
\* would else be an escape), a name like that of a placeholder, escapes
\* beside calls
RawTemplates ==
    SeqsUpTo(TemplateChars, MaxTemplateLen)
    \cup { Chars("f(f(f() ) )"), Chars("FUNC_0(f() )"), Chars("f()FUNC_1(0)"),
           Chars("f((f()))"), Chars("f(f() )(f(0) )"), Chars("norm_branch(tag('sep') )"),
           Chars("f()(0)f ()") }

InitExtract ==
    /\ config = NoConfig
    /\ uri = NoneV
    /\ ctx = NoneV
    /\ template = <<>>
    /\ parts = [raw |-> <<>>, function_calls |-> <<>>, placeholder_idx |-> 0, passes |-> 0]
    /\ pc = "call"
    /\ result = NoResult

\* _preprocess_template is called with a template
Preprocess ==
    /\ pc = "call"
    /\ template' \in RawTemplates
    /\ parts' = [parts EXCEPT !.raw = template']
    /\ pc' = "escape"
    /\ UNCHANGED <<config, uri, ctx, result>>

\* processed = template.replace("((", ESCAPE_OPEN).replace("))", ESCAPE_CLOSE)
Escape ==
    /\ pc = "escape"
    /\ template' = EscapeParens(template)
    /\ pc' = "scan"
    /\ UNCHANGED <<config, uri, ctx, parts, result>>

\* One pass of the loop: prev = processed; processed = PATTERN.sub(...);
\* the loop is left when the pass changed nothing
ExtractPass ==
    /\ pc = "scan"
    /\ parts.placeholder_idx <= MaxCalls
    /\ \E r \in {Sub(template, 1, parts.placeholder_idx)} :
          /\ template' = r.out
          /\ parts' = [parts EXCEPT !.function_calls = @ \o r.calls,
                                    !.placeholder_idx = r.idx,
                                    !.passes = @ + 1]
          /\ IF r.out = template
             THEN /\ pc' = "done"
                  /\ result' = [op |-> "_preprocess_template",
                                value |-> [processed |-> r.out,
                                           function_calls |-> parts.function_calls]]
             ELSE UNCHANGED <<pc, result>>
    /\ UNCHANGED <<config, uri, ctx>>

NextExtract == Preprocess \/ Escape \/ ExtractPass

SpecExtract == InitExtract /\ [][NextExtract]_vars

\* The loop is scheduled as long as it has a pass to make
FairExtract == SpecExtract /\ WF_vars(NextExtract)

\* The parentheses of a processed template that are not escaped
UnescapedParens(processed) == Cardinality({i \in 1..Len(processed) : IsParen(processed[i])})

\* The characters a sentinel or a placeholder is written with: the control
\* character at both ends, the letters between
Written(ch) ==
    IF ch = ESCAPE_OPEN THEN <<"NUL">> \o Chars("ESCAPE_OPEN") \o <<"NUL">>
    ELSE IF ch = ESCAPE_CLOSE THEN <<"NUL">> \o Chars("ESCAPE_CLOSE") \o <<"NUL">>
    ELSE IF \E idx \in 0..MaxCalls : ch = Placeholder(idx)
    THEN <<"SOH">> \o Chars("FUNC_")
         \o <<ToString(CHOOSE idx \in 0..MaxCalls : ch = Placeholder(idx))>> \o <<"SOH">>
    ELSE <<ch>>

\* The processed template, character by character
WrittenOut(processed) == Concat([i \in 1..Len(processed) |-> Written(processed[i])])

\* Position i of a written template is in a sentinel or a placeholder
InToken(s, i) ==
    \/ s[i] \in {"NUL", "SOH"}
    \/ Cardinality({j \in 1..(i - 1) : s[j] \in {"NUL", "SOH"}}) % 2 = 1

\* The positions the pattern matches at
MatchStarts(s) == {i \in 1..Len(s) : MatchAt(s, i).found}

\* C29: the extraction loop of _preprocess_template ends for every template,
\* after at most one pass for every two parentheses and one more;
\* a pass that changes the processed template lowers the number of its
\* unescaped parentheses; the pattern never matches at a position inside a
\* placeholder or a sentinel, as they are written; and when the loop is left
\* the pattern matches nowhere in the processed template, which is what
\* _preprocess_template returns
C29_ExtractionTerminates ==
    /\ <>(pc = "done")
    /\ [](2 * parts.passes <= UnescapedParens(EscapeParens(parts.raw)) + 2)
    /\ [][(pc = "scan" /\ template' # template)
             => UnescapedParens(template') < UnescapedParens(template)]_vars
    /\ [](pc \in {"scan", "done"} =>
             \A i \in MatchStarts(WrittenOut(template)) : ~InToken(WrittenOut(template), i))
    /\ [](pc = "done" =>
             /\ MatchStarts(template) = {}
             /\ MatchStarts(WrittenOut(template)) = {}
             /\ result.value = _preprocess_template(parts.raw))

\* The loop was left after two passes that extracted calls, the later one a
\* call with a placeholder among its arguments
C29_Witness ==
    /\ pc = "done"
    /\ parts.passes >= 3
    /\ \E i \in 1..Len(parts.function_calls) :
          \E idx \in 0..MaxCalls :
              Contains(parts.function_calls[i].expression, <<Placeholder(idx)>>)

\* A template with a name like that of a placeholder before a parenthesis
C29_WitnessName ==
    /\ pc = "done"
    /\ parts.raw = Chars("FUNC_0(f() )")
    /\ Len(parts.function_calls) = 2
    /\ parts.function_calls[2].expression = Chars("FUNC_0(") \o <<Placeholder(0), " ", ")">>

====
